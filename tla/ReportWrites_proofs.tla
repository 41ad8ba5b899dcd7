------------------------ MODULE ReportWrites_proofs ------------------------
(***************************************************************************)
(* For any number of overlapping creates and updates of reports, and any   *)
(* payloads: numbers are given out once, links are journalled on both      *)
(* timelines, link changes are announced and summaries are their owner's.  *)
(***************************************************************************)
EXTENDS ReportWrites, TLAPS

(* The initial state satisfies the inductive invariant.                    *)
LEMMA ReportsInitInv == Init => IInv
BY ReportsAssumption
   DEF Init, IInv, TypeOK, CallInv, NumberInv, JournalInv, ReportNumberIsOwn,
       LinkChangesAnnounced, Live, Creating, HasRead, Linking, Locations

(* Every action preserves the inductive invariant.                         *)
LEMMA ReportsStepInv == IInv /\ [Next]_vars => IInv'
<1> SUFFICES ASSUME IInv, [Next]_vars PROVE IInv'
  OBVIOUS
<1> USE ReportsAssumption DEF Locations
<1>1. ASSUME NEW q \in Requests, NEW c \in People, NEW d \in Payload, NEW n \in Numbers, StartCreate(q, c, d, n)
      PROVE  IInv'
  <2>1. TypeOK'
    BY <1>1 DEF IInv, TypeOK, CallInv, Call, Creating, HasRead, Linking, Live,
                Row, Payload, Subjects, Reported, OnIncident, Target,
                FirstLink, StartCreate, Goto, tables, history
  <2>2. CallInv'
    BY <1>1 DEF IInv, CallInv, TypeOK, Call, Creating, HasRead, Linking, Live,
                StartCreate, Goto, tables, history
  <2>3. NumberInv'
    BY <1>1 DEF IInv, NumberInv, TypeOK, CallInv, Creating, Call, StartCreate,
                Goto, tables, history
  <2>4. JournalInv'
    BY <1>1 DEF IInv, JournalInv, TypeOK, CallInv, Creating, HasRead, Linking,
                Live, Journalled, Journalling, Call, StartCreate, Goto, tables,
                history
  <2>5. ReportNumberIsOwn'
    BY <1>1 DEF IInv, ReportNumberIsOwn, TypeOK, NumberInv, Creating, CallInv,
                Call, StartCreate, Goto, tables, history
  <2>6. LinkChangesAnnounced'
    BY <1>1 DEF IInv, LinkChangesAnnounced, TypeOK, CallInv, Creating, Call,
                Owed, StartCreate, Goto, tables, history
  <2> QED BY <2>1, <2>2, <2>3, <2>4, <2>5, <2>6 DEF IInv
<1>2. ASSUME NEW q \in Requests, NEW c \in People, NEW d \in Payload, NEW n \in Numbers, StartUpdate(q, c, d, n)
      PROVE  IInv'
  <2>1. TypeOK'
    BY <1>2 DEF IInv, TypeOK, CallInv, Call, Creating, HasRead, Linking, Live,
                Row, Payload, Subjects, Reported, OnIncident, Target,
                FirstLink, StartUpdate, Goto, tables, history
  <2>2. CallInv'
    BY <1>2 DEF IInv, CallInv, TypeOK, Call, Creating, HasRead, Linking, Live,
                StartUpdate, Goto, tables, history
  <2>3. NumberInv'
    BY <1>2 DEF IInv, NumberInv, TypeOK, CallInv, Creating, Call, StartUpdate,
                Goto, tables, history
  <2>4. JournalInv'
    BY <1>2 DEF IInv, JournalInv, TypeOK, CallInv, Creating, HasRead, Linking,
                Live, Journalled, Journalling, Call, StartUpdate, Goto, tables,
                history
  <2>5. ReportNumberIsOwn'
    BY <1>2 DEF IInv, ReportNumberIsOwn, TypeOK, NumberInv, Creating, CallInv,
                Call, StartUpdate, Goto, tables, history
  <2>6. LinkChangesAnnounced'
    BY <1>2 DEF IInv, LinkChangesAnnounced, TypeOK, CallInv, Creating, Call,
                Owed, StartUpdate, Goto, tables, history
  <2> QED BY <2>1, <2>2, <2>3, <2>4, <2>5, <2>6 DEF IInv
<1>3. ASSUME NEW q \in Requests, InsertReport(q)
      PROVE  IInv'
  <2> DEFINE m == req[q].number
  <2>a. /\ m \in Numbers /\ row[m] = Absent
        /\ NewRow(q) \in Row /\ NewRow(q) # Absent
        /\ NewRow(q).incident = FirstLink(req[q].payload)
        /\ FirstLink(req[q].payload) \in Incidents \cup {0}
        /\ pc[q] = "insert" /\ req[q] \in Call
    BY <1>3 DEF IInv, CallInv, Call, Payload, InsertReport, NewRow, Row
  <2>b. /\ row'[m] = NewRow(q)
        /\ \A x \in Numbers \ {m} : row'[x] = row[x]
        /\ pc'[q] = "fill" /\ \A r \in Requests \ {q} : pc'[r] = pc[r]
        /\ UNCHANGED <<wrote, onReport, onIncident, req, stored, answers,
                       clobbered, failed>>
    BY <1>3, <2>a DEF InsertReport, Goto, IInv, TypeOK
  <2>1. TypeOK'
    BY <1>3 DEF IInv, TypeOK, CallInv, Call, Creating, HasRead, Linking, Live,
                Row, Payload, Subjects, Reported, OnIncident, Target,
                FirstLink, InsertReport, Goto, tables, history, NewRow
  <2>2. CallInv'
    BY <2>a, <2>b DEF IInv, CallInv, TypeOK, Creating, HasRead, Linking, Call
  <2>3. NumberInv'
    BY <1>3 DEF IInv, NumberInv, TypeOK, CallInv, Creating, Call, InsertReport,
                Goto, tables, history, NewRow
  <2>4. JournalInv'
    <3>1. Journalling(m, FirstLink(req[q].payload))'
      BY <2>a, <2>b DEF Journalling
    <3>2. ASSUME NEW x \in Numbers, NEW j, Journalling(x, j) PROVE Journalling(x, j)'
      BY <2>a, <2>b, <3>2 DEF Journalling
    <3>3. ASSUME NEW x \in Numbers, NEW j, Journalled(x, j) PROVE Journalled(x, j)'
      BY <2>b, <3>2, <3>3 DEF Journalled
    <3>4. ASSUME NEW x \in Live' PROVE Journalled(x, row[x].incident)'
      <4>1. CASE x = m
        <5>1. row'[x].incident = FirstLink(req[q].payload)
          BY <2>a, <2>b, <4>1
        <5> QED BY <2>b, <3>1, <4>1, <5>1 DEF Journalled, Journalling
      <4>2. CASE x # m
        <5>1. x \in Live /\ row'[x] = row[x]
          BY <2>b, <3>4, <4>2 DEF Live
        <5>2. x \in Numbers /\ Journalled(x, row[x].incident)
          BY <5>1 DEF IInv, JournalInv, Live
        <5> QED BY <3>3, <5>1, <5>2
      <4> QED BY <4>1, <4>2
    <3>5. ASSUME NEW r \in Requests, pc'[r] \in HasRead
          PROVE  Journalled(req[r].number, stored[r].incident)'
      BY <2>a, <2>b, <3>3, <3>5 DEF IInv, JournalInv, CallInv, HasRead,
                                    Linking, Call
    <3> QED BY <2>a, <2>b, <3>4, <3>5 DEF IInv, JournalInv, HasRead, Linking
  <2>5. ReportNumberIsOwn'
    BY <1>3 DEF IInv, ReportNumberIsOwn, TypeOK, NumberInv, Creating, CallInv,
                Call, InsertReport, Goto, tables, history, NewRow
  <2>6. LinkChangesAnnounced'
    BY <1>3 DEF IInv, LinkChangesAnnounced, TypeOK, CallInv, Creating, Call,
                Owed, InsertReport, Goto, tables, history, NewRow
  <2> QED BY <2>1, <2>2, <2>3, <2>4, <2>5, <2>6 DEF IInv
<1>4. ASSUME NEW q \in Requests, FillJournals(q)
      PROVE  IInv'
  <2>1. TypeOK'
    BY <1>4 DEF IInv, TypeOK, CallInv, Call, Creating, HasRead, Linking, Live,
                Row, Payload, Subjects, Reported, OnIncident, Target,
                FirstLink, FillJournals, Goto, tables, history
  <2>2. CallInv'
    BY <1>4 DEF IInv, CallInv, TypeOK, Call, Creating, HasRead, Linking, Live,
                FillJournals, Goto, tables, history
  <2>3. NumberInv'
    BY <1>4 DEF IInv, NumberInv, TypeOK, CallInv, Creating, Call, FillJournals,
                Goto, tables, history
  <2>4. JournalInv'
    BY <1>4 DEF IInv, JournalInv, TypeOK, CallInv, Creating, HasRead, Linking,
                Live, Journalled, Journalling, Call, FillJournals, Goto,
                tables, history
  <2>5. ReportNumberIsOwn'
    BY <1>4 DEF IInv, ReportNumberIsOwn, TypeOK, NumberInv, Creating, CallInv,
                Call, FillJournals, Goto, tables, history
  <2>6. LinkChangesAnnounced'
    BY <1>4 DEF IInv, LinkChangesAnnounced, TypeOK, CallInv, Creating, Call,
                Owed, FillJournals, Goto, tables, history
  <2> QED BY <2>1, <2>2, <2>3, <2>4, <2>5, <2>6 DEF IInv
<1>5. ASSUME NEW q \in Requests, FinishCreate(q)
      PROVE  IInv'
  <2>1. TypeOK'
    BY <1>5 DEF IInv, TypeOK, CallInv, Call, Creating, HasRead, Linking, Live,
                Row, Payload, Subjects, Reported, OnIncident, Target,
                FirstLink, FinishCreate, Goto, tables, history, Forget
  <2>2. CallInv'
    BY <1>5 DEF IInv, CallInv, TypeOK, Call, Creating, HasRead, Linking, Live,
                FinishCreate, Goto, tables, history, Forget
  <2>3. NumberInv'
    BY <1>5 DEF IInv, NumberInv, TypeOK, CallInv, Creating, Call, FinishCreate,
                Goto, tables, history, Forget
  <2>4. JournalInv'
    BY <1>5 DEF IInv, JournalInv, TypeOK, CallInv, Creating, HasRead, Linking,
                Live, Journalled, Journalling, Call, FinishCreate, Goto,
                tables, history, Forget
  <2>5. ReportNumberIsOwn'
    BY <1>5 DEF IInv, ReportNumberIsOwn, TypeOK, NumberInv, Creating, CallInv,
                Call, FinishCreate, Goto, tables, history, Forget
  <2>6. LinkChangesAnnounced'
    BY <1>5 DEF IInv, LinkChangesAnnounced, TypeOK, CallInv, Creating, Call,
                Owed, FinishCreate, Goto, tables, history, Forget
  <2> QED BY <2>1, <2>2, <2>3, <2>4, <2>5, <2>6 DEF IInv
<1>6. ASSUME NEW q \in Requests, Fail(q)
      PROVE  IInv'
  <2>1. TypeOK'
    BY <1>6 DEF IInv, TypeOK, CallInv, Call, Creating, HasRead, Linking, Live,
                Row, Payload, Subjects, Reported, OnIncident, Target,
                FirstLink, Fail, Goto, tables, history, Forget, Halfway
  <2>2. CallInv'
    BY <1>6 DEF IInv, CallInv, TypeOK, Call, Creating, HasRead, Linking, Live,
                Fail, Goto, tables, history, Forget, Halfway
  <2>3. NumberInv'
    BY <1>6 DEF IInv, NumberInv, TypeOK, CallInv, Creating, Call, Fail, Goto,
                tables, history, Forget, Halfway
  <2>4. JournalInv'
    <3>1. /\ pc'[q] = "idle"
          /\ \A r \in Requests \ {q} :
               pc'[r] = pc[r] /\ req'[r] = req[r] /\ stored'[r] = stored[r]
          /\ failed \subseteq failed'
          /\ UNCHANGED <<row, onReport, onIncident>>
      BY <1>6 DEF IInv, TypeOK, Fail, Forget, Goto, tables
    <3>2. pc[q] \in {"fill", "reportEntry", "incidentEntry"} =>
            req[q].number \in failed'
      BY <1>6 DEF IInv, TypeOK, CallInv, Call, Fail, Halfway
    <3>3. ASSUME NEW x \in Numbers, NEW j, Journalled(x, j) PROVE Journalled(x, j)'
      BY <3>1, <3>2, <3>3 DEF Journalled, Journalling
    <3>4. ASSUME NEW x \in Live' PROVE Journalled(x, row[x].incident)'
      BY <3>1, <3>3, <3>4 DEF IInv, JournalInv, Live
    <3>5. ASSUME NEW r \in Requests, pc'[r] \in HasRead
          PROVE  Journalled(req[r].number, stored[r].incident)'
      <4>1. r # q /\ pc[r] \in HasRead
        BY <3>1, <3>5 DEF HasRead, Linking
      <4>2. req[r].number \in Numbers
        BY <4>1 DEF IInv, CallInv, Call, HasRead, Linking
      <4>3. Journalled(req[r].number, stored[r].incident)
        BY <4>1 DEF IInv, JournalInv
      <4> QED BY <3>1, <3>3, <4>1, <4>2, <4>3
    <3> QED BY <3>1, <3>4, <3>5 DEF IInv, JournalInv
  <2>5. ReportNumberIsOwn'
    BY <1>6 DEF IInv, ReportNumberIsOwn, TypeOK, NumberInv, Creating, CallInv,
                Call, Fail, Goto, tables, history, Forget, Halfway
  <2>6. LinkChangesAnnounced'
    BY <1>6 DEF IInv, LinkChangesAnnounced, TypeOK, CallInv, Creating, Call,
                Owed, Fail, Goto, tables, history, Forget, Halfway
  <2> QED BY <2>1, <2>2, <2>3, <2>4, <2>5, <2>6 DEF IInv
<1>7. ASSUME NEW q \in Requests, ReadReport(q)
      PROVE  IInv'
  <2>1. TypeOK'
    BY <1>7 DEF IInv, TypeOK, CallInv, Call, Creating, HasRead, Linking, Live,
                Row, Payload, Subjects, Reported, OnIncident, Target,
                FirstLink, ReadReport, Goto, tables, history
  <2>2. CallInv'
    BY <1>7 DEF IInv, CallInv, TypeOK, Call, Creating, HasRead, Linking, Live,
                ReadReport, Goto, tables, history
  <2>3. NumberInv'
    BY <1>7 DEF IInv, NumberInv, TypeOK, CallInv, Creating, Call, ReadReport,
                Goto, tables, history
  <2>4. JournalInv'
    BY <1>7 DEF IInv, JournalInv, TypeOK, CallInv, Creating, HasRead, Linking,
                Live, Journalled, Journalling, Call, ReadReport, Goto, tables,
                history
  <2>5. ReportNumberIsOwn'
    BY <1>7 DEF IInv, ReportNumberIsOwn, TypeOK, NumberInv, Creating, CallInv,
                Call, ReadReport, Goto, tables, history
  <2>6. LinkChangesAnnounced'
    BY <1>7 DEF IInv, LinkChangesAnnounced, TypeOK, CallInv, Creating, Call,
                Owed, ReadReport, Goto, tables, history
  <2> QED BY <2>1, <2>2, <2>3, <2>4, <2>5, <2>6 DEF IInv
<1>8. ASSUME NEW q \in Requests, ClearFloor(q)
      PROVE  IInv'
  <2>1. TypeOK'
    BY <1>8 DEF IInv, TypeOK, CallInv, Call, Creating, HasRead, Linking, Live,
                Row, Payload, Subjects, Reported, OnIncident, Target,
                FirstLink, ClearFloor, Goto, tables, history
  <2>2. CallInv'
    BY <1>8 DEF IInv, CallInv, TypeOK, Call, Creating, HasRead, Linking, Live,
                ClearFloor, Goto, tables, history
  <2>3. NumberInv'
    BY <1>8 DEF IInv, NumberInv, TypeOK, CallInv, Creating, Call, ClearFloor,
                Goto, tables, history
  <2>4. JournalInv'
    BY <1>8 DEF IInv, JournalInv, TypeOK, CallInv, Creating, HasRead, Linking,
                Live, Journalled, Journalling, Call, ClearFloor, Goto, tables,
                history
  <2>5. ReportNumberIsOwn'
    BY <1>8 DEF IInv, ReportNumberIsOwn, TypeOK, NumberInv, Creating, CallInv,
                Call, ClearFloor, Goto, tables, history
  <2>6. LinkChangesAnnounced'
    BY <1>8 DEF IInv, LinkChangesAnnounced, TypeOK, CallInv, Creating, Call,
                Owed, ClearFloor, Goto, tables, history
  <2> QED BY <2>1, <2>2, <2>3, <2>4, <2>5, <2>6 DEF IInv
<1>9. ASSUME NEW q \in Requests, KeepLink(q)
      PROVE  IInv'
  <2>1. TypeOK'
    BY <1>9 DEF IInv, TypeOK, CallInv, Call, Creating, HasRead, Linking, Live,
                Row, Payload, Subjects, Reported, OnIncident, Target,
                FirstLink, KeepLink, Goto, tables, history, AsksNewLink
  <2>2. CallInv'
    BY <1>9 DEF IInv, CallInv, TypeOK, Call, Creating, HasRead, Linking, Live,
                KeepLink, Goto, tables, history, AsksNewLink
  <2>3. NumberInv'
    BY <1>9 DEF IInv, NumberInv, TypeOK, CallInv, Creating, Call, KeepLink,
                Goto, tables, history, AsksNewLink
  <2>4. JournalInv'
    BY <1>9 DEF IInv, JournalInv, TypeOK, CallInv, Creating, HasRead, Linking,
                Live, Journalled, Journalling, Call, KeepLink, Goto, tables,
                history, AsksNewLink
  <2>5. ReportNumberIsOwn'
    BY <1>9 DEF IInv, ReportNumberIsOwn, TypeOK, NumberInv, Creating, CallInv,
                Call, KeepLink, Goto, tables, history, AsksNewLink
  <2>6. LinkChangesAnnounced'
    BY <1>9 DEF IInv, LinkChangesAnnounced, TypeOK, CallInv, Creating, Call,
                Owed, KeepLink, Goto, tables, history, AsksNewLink
  <2> QED BY <2>1, <2>2, <2>3, <2>4, <2>5, <2>6 DEF IInv
<1>10. ASSUME NEW q \in Requests, Relink(q)
      PROVE  IInv'
  <2> DEFINE m == req[q].number
             i == Target(req[q].payload)
             R == [summary |-> row[m].summary, incident |-> i,
                   createdBy |-> row[m].createdBy]
  <2>a. /\ m \in Numbers /\ row[m] # Absent /\ row[m] \in Row
        /\ i \in Incidents \cup {0} /\ req[q].payload.link # Absent
        /\ pc[q] = "link" /\ req[q] \in Call
    BY <1>10 DEF IInv, TypeOK, CallInv, Call, HasRead, Relink, AsksNewLink
  <2>b. /\ R \in Row /\ R # Absent /\ R.incident = i
        /\ R.createdBy = row[m].createdBy
    BY <2>a DEF Row
  <2>c. /\ row'[m] = R
        /\ \A x \in Numbers \ {m} : row'[x] = row[x]
        /\ pc'[q] = "reportEntry" /\ \A r \in Requests \ {q} : pc'[r] = pc[r]
        /\ UNCHANGED <<wrote, onReport, onIncident, req, stored, answers, failed>>
    BY <1>10, <2>a DEF Relink, Goto, IInv, TypeOK
  <2>d. /\ unseen' = unseen \cup {Reported(m)} \cup OnIncident(i)
                            \cup OnIncident(row[m].incident)
        /\ row[m].incident = stored[q].incident \/ m \in clobbered'
        /\ clobbered \subseteq clobbered'
    BY <1>10 DEF Relink
  <2> HIDE DEF R
  <2>1. TypeOK'
    BY <1>10 DEF IInv, TypeOK, CallInv, Call, Creating, HasRead, Linking, Live,
                 Row, Payload, Subjects, Reported, OnIncident, Target,
                 FirstLink, Relink, Goto, tables, history, AsksNewLink
  <2>2. CallInv'
    BY <2>a, <2>b, <2>c DEF IInv, CallInv, TypeOK, Creating, HasRead, Linking,
                            Call
  <2>3. NumberInv'
    BY <2>a, <2>b, <2>c DEF IInv, NumberInv, Creating
  <2>4. JournalInv'
    <3>1. Journalling(m, i)'
      BY <2>a, <2>b, <2>c DEF Journalling
    <3>2. ASSUME NEW x \in Numbers, NEW j, Journalling(x, j) PROVE Journalling(x, j)'
      BY <2>a, <2>c, <3>2 DEF Journalling
    <3>3. ASSUME NEW x \in Numbers, NEW j, Journalled(x, j) PROVE Journalled(x, j)'
      BY <2>c, <3>2, <3>3 DEF Journalled
    <3>4. ASSUME NEW x \in Live' PROVE Journalled(x, row[x].incident)'
      <4>1. CASE x = m
        <5>1. row'[x].incident = i
          BY <2>a, <2>b, <2>c, <4>1
        <5> QED BY <2>c, <3>1, <4>1, <5>1 DEF Journalled, Journalling
      <4>2. CASE x # m
        <5>1. x \in Live /\ row'[x] = row[x]
          BY <2>c, <3>4, <4>2 DEF Live
        <5>2. x \in Numbers /\ Journalled(x, row[x].incident)
          BY <5>1 DEF IInv, JournalInv, Live
        <5> QED BY <3>3, <5>1, <5>2
      <4> QED BY <4>1, <4>2
    <3>5. ASSUME NEW r \in Requests, pc'[r] \in HasRead
          PROVE  Journalled(req[r].number, stored[r].incident)'
      BY <2>a, <2>c, <3>3, <3>5 DEF IInv, JournalInv, CallInv, HasRead,
                                    Linking, Call
    <3> QED BY <2>a, <2>c, <3>4, <3>5 DEF IInv, JournalInv, HasRead, Linking
  <2>5. ReportNumberIsOwn'
    BY <1>10 DEF IInv, ReportNumberIsOwn, TypeOK, NumberInv, Creating, CallInv,
                 Call, Relink, Goto, tables, history, AsksNewLink
  <2>6. LinkChangesAnnounced'
    <3> SUFFICES ASSUME failed' \cup clobbered' = {}, NEW x \in unseen'
                 PROVE  \E r \in Requests : x \in Owed(r)'
      BY DEF LinkChangesAnnounced
    <3>1. row[m].incident = stored[q].incident /\ failed \cup clobbered = {}
      BY <2>c, <2>d
    <3>2. Owed(q)' = {Reported(m)} \cup OnIncident(i) \cup OnIncident(stored[q].incident)
      BY <2>c DEF Owed
    <3>3. CASE x \in unseen
      <4>1. PICK r \in Requests : x \in Owed(r)
        BY <3>1, <3>3 DEF IInv, LinkChangesAnnounced
      <4>2. r # q
        BY <2>a, <4>1 DEF Owed
      <4>3. Owed(r)' = Owed(r)
        BY <2>c, <4>2 DEF Owed
      <4> QED BY <4>1, <4>3
    <3>4. CASE x \notin unseen
      BY <2>d, <3>1, <3>2, <3>4
    <3> QED BY <3>3, <3>4
  <2> QED BY <2>1, <2>2, <2>3, <2>4, <2>5, <2>6 DEF IInv
<1>11. ASSUME NEW q \in Requests, WriteReportEntry(q)
      PROVE  IInv'
  <2>1. TypeOK'
    BY <1>11 DEF IInv, TypeOK, CallInv, Call, Creating, HasRead, Linking, Live,
                 Row, Payload, Subjects, Reported, OnIncident, Target,
                 FirstLink, WriteReportEntry, Goto, tables, history
  <2>2. CallInv'
    BY <1>11 DEF IInv, CallInv, TypeOK, Call, Creating, HasRead, Linking, Live,
                 WriteReportEntry, Goto, tables, history
  <2>3. NumberInv'
    BY <1>11 DEF IInv, NumberInv, TypeOK, CallInv, Creating, Call,
                 WriteReportEntry, Goto, tables, history
  <2>4. JournalInv'
    BY <1>11 DEF IInv, JournalInv, TypeOK, CallInv, Creating, HasRead, Linking,
                 Live, Journalled, Journalling, Call, WriteReportEntry, Goto,
                 tables, history
  <2>5. ReportNumberIsOwn'
    BY <1>11 DEF IInv, ReportNumberIsOwn, TypeOK, NumberInv, Creating, CallInv,
                 Call, WriteReportEntry, Goto, tables, history
  <2>6. LinkChangesAnnounced'
    BY <1>11 DEF IInv, LinkChangesAnnounced, TypeOK, CallInv, Creating, Call,
                 Owed, WriteReportEntry, Goto, tables, history
  <2> QED BY <2>1, <2>2, <2>3, <2>4, <2>5, <2>6 DEF IInv
<1>12. ASSUME NEW q \in Requests, WriteIncidentEntry(q)
      PROVE  IInv'
  <2>1. TypeOK'
    BY <1>12 DEF IInv, TypeOK, CallInv, Call, Creating, HasRead, Linking, Live,
                 Row, Payload, Subjects, Reported, OnIncident, Target,
                 FirstLink, WriteIncidentEntry, Goto, tables, history
  <2>2. CallInv'
    BY <1>12 DEF IInv, CallInv, TypeOK, Call, Creating, HasRead, Linking, Live,
                 WriteIncidentEntry, Goto, tables, history
  <2>3. NumberInv'
    BY <1>12 DEF IInv, NumberInv, TypeOK, CallInv, Creating, Call,
                 WriteIncidentEntry, Goto, tables, history
  <2>4. JournalInv'
    BY <1>12 DEF IInv, JournalInv, TypeOK, CallInv, Creating, HasRead, Linking,
                 Live, Journalled, Journalling, Call, WriteIncidentEntry, Goto,
                 tables, history
  <2>5. ReportNumberIsOwn'
    BY <1>12 DEF IInv, ReportNumberIsOwn, TypeOK, NumberInv, Creating, CallInv,
                 Call, WriteIncidentEntry, Goto, tables, history
  <2>6. LinkChangesAnnounced'
    BY <1>12 DEF IInv, LinkChangesAnnounced, TypeOK, CallInv, Creating, Call,
                 Owed, WriteIncidentEntry, Goto, tables, history
  <2> QED BY <2>1, <2>2, <2>3, <2>4, <2>5, <2>6 DEF IInv
<1>13. ASSUME NEW q \in Requests, AnnounceLink(q)
      PROVE  IInv'
  <2>1. TypeOK'
    BY <1>13 DEF IInv, TypeOK, CallInv, Call, Creating, HasRead, Linking, Live,
                 Row, Payload, Subjects, Reported, OnIncident, Target,
                 FirstLink, AnnounceLink, Goto, tables, history
  <2>2. CallInv'
    BY <1>13 DEF IInv, CallInv, TypeOK, Call, Creating, HasRead, Linking, Live,
                 AnnounceLink, Goto, tables, history
  <2>3. NumberInv'
    BY <1>13 DEF IInv, NumberInv, TypeOK, CallInv, Creating, Call,
                 AnnounceLink, Goto, tables, history
  <2>4. JournalInv'
    BY <1>13 DEF IInv, JournalInv, TypeOK, CallInv, Creating, HasRead, Linking,
                 Live, Journalled, Journalling, Call, AnnounceLink, Goto,
                 tables, history
  <2>5. ReportNumberIsOwn'
    BY <1>13 DEF IInv, ReportNumberIsOwn, TypeOK, NumberInv, Creating, CallInv,
                 Call, AnnounceLink, Goto, tables, history
  <2>6. LinkChangesAnnounced'
    BY <1>13 DEF IInv, LinkChangesAnnounced, TypeOK, CallInv, Creating, Call,
                 Owed, AnnounceLink, Goto, tables, history
  <2> QED BY <2>1, <2>2, <2>3, <2>4, <2>5, <2>6 DEF IInv
<1>14. ASSUME NEW q \in Requests, FinishLink(q)
      PROVE  IInv'
  <2>1. TypeOK'
    BY <1>14 DEF IInv, TypeOK, CallInv, Call, Creating, HasRead, Linking, Live,
                 Row, Payload, Subjects, Reported, OnIncident, Target,
                 FirstLink, FinishLink, Goto, tables, history, Forget
  <2>2. CallInv'
    BY <1>14 DEF IInv, CallInv, TypeOK, Call, Creating, HasRead, Linking, Live,
                 FinishLink, Goto, tables, history, Forget
  <2>3. NumberInv'
    BY <1>14 DEF IInv, NumberInv, TypeOK, CallInv, Creating, Call, FinishLink,
                 Goto, tables, history, Forget
  <2>4. JournalInv'
    BY <1>14 DEF IInv, JournalInv, TypeOK, CallInv, Creating, HasRead, Linking,
                 Live, Journalled, Journalling, Call, FinishLink, Goto, tables,
                 history, Forget
  <2>5. ReportNumberIsOwn'
    BY <1>14 DEF IInv, ReportNumberIsOwn, TypeOK, NumberInv, Creating, CallInv,
                 Call, FinishLink, Goto, tables, history, Forget
  <2>6. LinkChangesAnnounced'
    BY <1>14 DEF IInv, LinkChangesAnnounced, TypeOK, CallInv, Creating, Call,
                 Owed, FinishLink, Goto, tables, history, Forget
  <2> QED BY <2>1, <2>2, <2>3, <2>4, <2>5, <2>6 DEF IInv
<1>15. ASSUME NEW q \in Requests, CheckRights(q)
      PROVE  IInv'
  <2>1. TypeOK'
    BY <1>15 DEF IInv, TypeOK, CallInv, Call, Creating, HasRead, Linking, Live,
                 Row, Payload, Subjects, Reported, OnIncident, Target,
                 FirstLink, CheckRights, Goto, tables, history
  <2>2. CallInv'
    BY <1>15 DEF IInv, CallInv, TypeOK, Call, Creating, HasRead, Linking, Live,
                 CheckRights, Goto, tables, history
  <2>3. NumberInv'
    BY <1>15 DEF IInv, NumberInv, TypeOK, CallInv, Creating, Call, CheckRights,
                 Goto, tables, history
  <2>4. JournalInv'
    BY <1>15 DEF IInv, JournalInv, TypeOK, CallInv, Creating, HasRead, Linking,
                 Live, Journalled, Journalling, Call, CheckRights, Goto,
                 tables, history
  <2>5. ReportNumberIsOwn'
    BY <1>15 DEF IInv, ReportNumberIsOwn, TypeOK, NumberInv, Creating, CallInv,
                 Call, CheckRights, Goto, tables, history
  <2>6. LinkChangesAnnounced'
    BY <1>15 DEF IInv, LinkChangesAnnounced, TypeOK, CallInv, Creating, Call,
                 Owed, CheckRights, Goto, tables, history
  <2> QED BY <2>1, <2>2, <2>3, <2>4, <2>5, <2>6 DEF IInv
<1>16. ASSUME NEW q \in Requests, Commit(q)
      PROVE  IInv'
  <2> DEFINE m == req[q].number
  <2>a. /\ m \in Numbers /\ row[m] # Absent /\ row[m] \in Row
        /\ stored[q] \in Row /\ stored[q].createdBy = row[m].createdBy
        /\ pc[q] = "commit" /\ req[q] \in Call
    BY <1>16 DEF IInv, TypeOK, CallInv, Call, HasRead, Commit
  <2>b. /\ WrittenBack(q) \in Row /\ WrittenBack(q) # Absent
        /\ WrittenBack(q).incident = stored[q].incident
        /\ WrittenBack(q).createdBy = row[m].createdBy
    BY <2>a DEF WrittenBack, Row, Call, Payload
  <2>c. /\ row'[m] = WrittenBack(q)
        /\ \A x \in Numbers \ {m} : row'[x] = row[x]
        /\ pc'[q] = "announce" /\ \A r \in Requests \ {q} : pc'[r] = pc[r]
        /\ UNCHANGED <<onReport, onIncident, req, stored, answers, failed>>
    BY <1>16, <2>a DEF Commit, Goto, IInv, TypeOK
  <2>d. \/ /\ unseen' = unseen \cup {Reported(m)}
           /\ clobbered' = clobbered
        \/ m \in clobbered'
    BY <1>16 DEF Commit
  <2>1. TypeOK'
    BY <1>16 DEF IInv, TypeOK, CallInv, Call, Creating, HasRead, Linking, Live,
                 Row, Payload, Subjects, Reported, OnIncident, Target,
                 FirstLink, Commit, Goto, tables, history, WrittenBack
  <2>2. CallInv'
    BY <2>a, <2>b, <2>c DEF IInv, CallInv, TypeOK, Creating, HasRead, Linking,
                            Call
  <2>3. NumberInv'
    BY <2>a, <2>b, <2>c DEF IInv, NumberInv, Creating
  <2>4. JournalInv'
    BY <1>16 DEF IInv, JournalInv, TypeOK, CallInv, Creating, HasRead, Linking,
                 Live, Journalled, Journalling, Call, Commit, Goto, tables,
                 history, WrittenBack
  <2>5. ReportNumberIsOwn'
    BY <1>16 DEF IInv, ReportNumberIsOwn, TypeOK, NumberInv, Creating, CallInv,
                 Call, Commit, Goto, tables, history, WrittenBack
  <2>6. LinkChangesAnnounced'
    <3> SUFFICES ASSUME failed' \cup clobbered' = {}, NEW x \in unseen'
                 PROVE  \E r \in Requests : x \in Owed(r)'
      BY DEF LinkChangesAnnounced
    <3>1. unseen' = unseen \cup {Reported(m)} /\ failed \cup clobbered = {}
      BY <2>c, <2>d
    <3>2. Owed(q)' = {Reported(m)}
      BY <2>c DEF Owed
    <3>3. CASE x \in unseen
      <4>1. PICK r \in Requests : x \in Owed(r)
        BY <3>1, <3>3 DEF IInv, LinkChangesAnnounced
      <4>2. r # q
        BY <2>a, <4>1 DEF Owed
      <4>3. Owed(r)' = Owed(r)
        BY <2>c, <4>2 DEF Owed
      <4> QED BY <4>1, <4>3
    <3>4. CASE x \notin unseen
      BY <3>1, <3>2, <3>4
    <3> QED BY <3>3, <3>4
  <2> QED BY <2>1, <2>2, <2>3, <2>4, <2>5, <2>6 DEF IInv
<1>17. ASSUME NEW q \in Requests, FinishUpdate(q)
      PROVE  IInv'
  <2>1. TypeOK'
    BY <1>17 DEF IInv, TypeOK, CallInv, Call, Creating, HasRead, Linking, Live,
                 Row, Payload, Subjects, Reported, OnIncident, Target,
                 FirstLink, FinishUpdate, Goto, tables, history, Forget
  <2>2. CallInv'
    BY <1>17 DEF IInv, CallInv, TypeOK, Call, Creating, HasRead, Linking, Live,
                 FinishUpdate, Goto, tables, history, Forget
  <2>3. NumberInv'
    BY <1>17 DEF IInv, NumberInv, TypeOK, CallInv, Creating, Call,
                 FinishUpdate, Goto, tables, history, Forget
  <2>4. JournalInv'
    BY <1>17 DEF IInv, JournalInv, TypeOK, CallInv, Creating, HasRead, Linking,
                 Live, Journalled, Journalling, Call, FinishUpdate, Goto,
                 tables, history, Forget
  <2>5. ReportNumberIsOwn'
    BY <1>17 DEF IInv, ReportNumberIsOwn, TypeOK, NumberInv, Creating, CallInv,
                 Call, FinishUpdate, Goto, tables, history, Forget
  <2>6. LinkChangesAnnounced'
    BY <1>17 DEF IInv, LinkChangesAnnounced, TypeOK, CallInv, Creating, Call,
                 Owed, FinishUpdate, Goto, tables, history, Forget
  <2> QED BY <2>1, <2>2, <2>3, <2>4, <2>5, <2>6 DEF IInv
<1>18. CASE UNCHANGED vars
  BY <1>18 DEF vars, tables, history, IInv, TypeOK, CallInv, NumberInv,
               JournalInv, ReportNumberIsOwn, LinkChangesAnnounced, Live,
               Creating, HasRead, Linking, Owed, Journalled, Journalling
<1> QED
  BY <1>1, <1>2, <1>3, <1>4, <1>5, <1>6, <1>7, <1>8, <1>9, <1>10, <1>11, <1>12,
     <1>13, <1>14, <1>15, <1>16, <1>17, <1>18
     DEF Next, Step

(* The inductive invariant holds in every reachable state.                 *)
THEOREM ReportsInvariant == Spec => []IInv
BY ReportsInitInv, ReportsStepInv, PTL DEF Spec

(* Type correctness: in particular no report is on an unknown incident.    *)
THEOREM ReportsTypeCorrect == Spec => []TypeOK
<1>1. IInv => TypeOK
  BY DEF IInv
<1> QED BY ReportsInvariant, <1>1, PTL

(* No two CreateReport calls return the same number.                       *)
THEOREM ReportsNumberIsOwn == Spec => []ReportNumberIsOwn
<1>1. IInv => ReportNumberIsOwn
  BY DEF IInv
<1> QED BY ReportsInvariant, <1>1, PTL

(* A link is told of on both timelines, however calls that link and calls  *)
(* that write an old link back overlap.                                    *)
THEOREM ReportsLinkOnBothTimelines == Spec => []LinkOnBothTimelines
<1>1. IInv => LinkOnBothTimelines
  BY DEF IInv, JournalInv, Journalled, Journalling, LinkOnBothTimelines
<1> QED BY ReportsInvariant, <1>1, PTL

(* Both ends of a moved link are announced or owed by a call in flight.    *)
THEOREM ReportsLinkChangesAnnounced == Spec => []LinkChangesAnnounced
<1>1. IInv => LinkChangesAnnounced
  BY DEF IInv
<1> QED BY ReportsInvariant, <1>1, PTL

(* Nobody but the owner puts a new text into a summary.                    *)
THEOREM ReportsSummaryByOwnerOnly == Spec => SummaryByOwnerOnly
<1> DEFINE Owned(q, n) == \/ req[q].caller \in Admins \cup {row[n].createdBy}
                          \/ row'[n].summary = stored[q].summary
<1>1. ASSUME IInv, Next, NEW q \in Requests, NEW n \in Live,
             pc[q] = "commit", pc'[q] = "announce",
             row'[n].summary # row[n].summary
      PROVE  Owned(q, n)
  <2>1. Commit(q)
    BY <1>1, ReportsAssumption
       DEF IInv, TypeOK, Next, Step, StartCreate, StartUpdate, InsertReport,
           FillJournals, FinishCreate, Fail, ReadReport, ClearFloor, KeepLink,
           Relink, WriteReportEntry, WriteIncidentEntry, AnnounceLink,
           FinishLink, CheckRights, Commit, FinishUpdate, Goto, Forget
  <2>2. /\ req[q].number \in Numbers
        /\ stored[q].createdBy = row[req[q].number].createdBy
        /\ req[q].payload.summary # Absent =>
             req[q].caller \in Admins \cup {stored[q].createdBy}
    BY <1>1 DEF IInv, CallInv, Call, HasRead
  <2>3. n = req[q].number /\ row'[n] = WrittenBack(q)
    BY <1>1, <2>1, <2>2 DEF IInv, TypeOK, Commit, Live
  <2> QED BY <2>2, <2>3 DEF WrittenBack
<1>2. IInv /\ [Next]_vars =>
        [\A q \in Requests, n \in Live :
           (pc[q] = "commit" /\ pc'[q] = "announce"
              /\ row'[n].summary # row[n].summary) => Owned(q, n)]_vars
  BY <1>1
<1> QED BY ReportsInvariant, <1>2, PTL DEF Spec, SummaryByOwnerOnly

(* The reports stay consistent under any overlap of calls.                 *)
THEOREM ReportsAreSafe == Spec => []ReportSafe
<1> QED BY ReportsNumberIsOwn, ReportsLinkOnBothTimelines,
           ReportsLinkChangesAnnounced, PTL DEF ReportSafe
============================================================================
