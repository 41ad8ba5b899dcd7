------------------------------ MODULE Compose ------------------------------
(***************************************************************************)
(* Writing an incident, a report or a journal entry: the composer docked   *)
(* under a record (AppendComposer, ReportComposer) and the filing forms    *)
(* (NewIncidentScreen, NewReportScreen), with the draft of each target     *)
(* that the device keeps (useDraft, drafts.ts) and the photo that goes up  *)
(* after the text (usePhotoUpload, blobs.ts).                              *)
(*                                                                         *)
(* One device, one composer on screen at a time; sends outlive the screen  *)
(* they were pressed on.  All drafts share one key of AsyncStorage: saving *)
(* or clearing one reads the whole map and later writes it back.  The      *)
(* storage answers requests in the order they are made.                    *)
(***************************************************************************)
EXTENDS Integers, Sequences, FiniteSets

CONSTANTS Timelines,      \* records with a composer under them
          New,            \* the target of the filing form
          KeyedComposer,  \* the composer is remounted for each record
          MayAttach,      \* attachFiles
          MaxTyped, MaxSends, MaxMounts, MaxSteps, MaxQueue, MaxEnds   \* bounds

Targets == Timelines \cup {New}
Away == "away"          \* a screen without a composer
Login == "login"        \* the session is over
Typed == 1 .. MaxTyped  \* each text typed is a number of its own
Empty == 0              \* isEmptyDraft

ASSUME ComposeAssumption ==
  /\ New \notin Timelines /\ {Away, Login} \cap Targets = {}
  /\ KeyedComposer \in BOOLEAN /\ MayAttach \in BOOLEAN
  /\ {MaxTyped, MaxSends, MaxMounts, MaxSteps, MaxQueue, MaxEnds} \subseteq Nat
  /\ MaxMounts > 0

VARIABLES
  disk, queue,     \* the stored drafts; requests the storage has not answered
  comp,            \* the composer on screen
  sends, pressed,  \* sends and uploads that have not returned; sends pressed
  journal,         \* the entries on the server
  shown, stale,    \* the cached records' entries; records to be read again
  ending, ends,    \* onSignedOut is running; sessions ended
  typedAt,         \* history: where each text was typed
  acked, erased,   \* history: texts whose send succeeded; texts erased
  filings,         \* history: filings the server took, by form
  unheard,         \* history: those whose answer the form never heard
  lost             \* history: targets whose draft another target's write undid

storeVars == <<disk, queue, lost>>
sendVars == <<sends, pressed>>
cacheVars == <<journal, shown, stale>>
sessionVars == <<ending, ends>>
historyVars == <<typedAt, acked, erased, filings, unheard>>
composeVars == <<storeVars, comp, sendVars, cacheVars, sessionVars, historyVars>>

Composer(t, m) == [at |-> t, mount |-> m, text |-> Empty, dirty |-> FALSE,
                   photo |-> "none", photoAt |-> Away, filed |-> FALSE]

---------------------------------------------------------------------------
(* drafts.ts                                                               *)

Get(purpose, t, text, m) ==
  [kind |-> "get", purpose |-> purpose, at |-> t, text |-> text, mount |-> m]
Put(t, drafts) == [kind |-> "set", at |-> t, drafts |-> drafts]
Remove == [kind |-> "remove"]

loadDraft(t, m) == Get("load", t, Empty, m)
(* An empty draft is removed rather than stored.                           *)
saveDraft(t, text) == Get("save", t, text, 0)
clearDraft(t) == Get("clear", t, Empty, 0)

ComposeInit ==
  /\ disk = [t \in Targets |-> Empty]
  /\ \E t \in Targets : comp = Composer(t, 1) /\ queue = <<loadDraft(t, 1)>>
  /\ sends = {} /\ pressed = 0
  /\ journal = [r \in Timelines |-> {}] /\ shown = journal /\ stale = {}
  /\ ending = FALSE /\ ends = 0
  /\ typedAt = <<>> /\ acked = {} /\ erased = {}
  /\ filings = [m \in 1 .. MaxMounts |-> 0] /\ unheard = filings
  /\ lost = {}

(* write, as the debounce, a blur or the unmount calls it.                 *)
Flushed == IF comp.dirty THEN <<saveDraft(comp.at, comp.text)>> ELSE <<>>

(* The stored draft is taken unless something has been typed; an answer    *)
(* for a screen or a target that is gone is ignored.                       *)
Restore(q) ==
  comp' = IF /\ q.purpose = "load" /\ q.mount = comp.mount /\ q.at = comp.at
             /\ comp.text = Empty
            THEN [comp EXCEPT !.text = disk[q.at]]
            ELSE comp

StorageReads ==
  /\ queue # <<>> /\ Head(queue).kind = "get"
  /\ LET q == Head(queue)
     IN /\ Restore(q)
        /\ queue' = IF q.purpose = "load" THEN Tail(queue)
                    ELSE Append(Tail(queue), Put(q.at, [disk EXCEPT ![q.at] = q.text]))
  /\ UNCHANGED <<disk, lost, sendVars, cacheVars, sessionVars, historyVars>>

StorageWrites ==
  /\ queue # <<>> /\ Head(queue).kind = "set"
  /\ LET q == Head(queue)
     IN /\ disk' = q.drafts
        /\ lost' = lost \cup {t \in Targets \ {q.at} : q.drafts[t] # disk[t]}
  /\ queue' = Tail(queue)
  /\ UNCHANGED <<comp, sendVars, cacheVars, sessionVars, historyVars>>

---------------------------------------------------------------------------
(* useDraft                                                                *)

OnScreen == comp.at \in Targets

(* Bound: screens opened and sends pressed together.                       *)
Room == comp.mount + pressed < MaxSteps

(* The input takes text from the start, loaded or not.                     *)
TypeText ==
  /\ OnScreen /\ Len(typedAt) < MaxTyped
  /\ comp' = [comp EXCEPT !.text = Len(typedAt) + 1, !.dirty = TRUE]
  /\ typedAt' = Append(typedAt, comp.at)
  /\ UNCHANGED <<storeVars, sendVars, cacheVars, sessionVars, acked, erased, filings,
                 unheard>>

Erase ==
  /\ OnScreen /\ comp.text # Empty
  /\ comp' = [comp EXCEPT !.text = Empty, !.dirty = TRUE]
  /\ erased' = erased \cup {comp.text}
  /\ UNCHANGED <<storeVars, sendVars, cacheVars, sessionVars, typedAt, acked, filings,
                 unheard>>

(* A write that saves nothing.                                             *)
WriteForgets ==
  /\ comp.dirty /\ Len(queue) < MaxQueue
  /\ comp' = [comp EXCEPT !.dirty = FALSE]
  /\ UNCHANGED <<storeVars, sendVars, cacheVars, sessionVars, historyVars>>

(* The debounce has run out, or the input was left.                        *)
Write ==
  /\ comp.dirty /\ Len(queue) < MaxQueue
  /\ queue' = queue \o Flushed
  /\ comp' = [comp EXCEPT !.dirty = FALSE]
  /\ UNCHANGED <<disk, lost, sendVars, cacheVars, sessionVars, historyVars>>

(* A composer that stays for the next record.                              *)
StaysUnkeyed(t) == {comp.at, t} \subseteq Timelines
Stays(t) == ~KeyedComposer /\ {comp.at, t} \subseteq Timelines

(* Another screen: what is not written yet is flushed, the next target's   *)
(* draft is asked for, and the record is read.                             *)
Show(t) ==
  /\ comp.mount < MaxMounts
  /\ comp' = IF Stays(t) THEN [comp EXCEPT !.at = t, !.dirty = FALSE]
                         ELSE Composer(t, comp.mount + 1)
  /\ queue' = queue \o Flushed
                \o (IF t \in Targets THEN <<loadDraft(t, comp'.mount)>> ELSE <<>>)

Open(t) ==
  /\ comp.at \notin {t, Login} /\ Len(queue) < MaxQueue /\ Room
  /\ Show(t)
  /\ UNCHANGED <<disk, lost, sendVars, cacheVars, sessionVars, historyVars>>

---------------------------------------------------------------------------
(* The photo of the composer.                                              *)

(* A send of this screen is out.  A retry from the dock sets no flag; the  *)
(* form's does.                                                            *)
Busy == \E w \in sends : w.mount = comp.mount /\ (comp.at = New \/ ~w.retry)

ChoosePhoto ==
  /\ OnScreen /\ MayAttach /\ comp.photo = "none" /\ ~Busy
  /\ comp' = [comp EXCEPT !.photo = "chosen", !.photoAt = comp.at]
  /\ UNCHANGED <<storeVars, sendVars, cacheVars, sessionVars, historyVars>>

(* Not offered while it uploads; offered while its text is being sent.     *)
RemovePhoto ==
  /\ OnScreen /\ comp.photo \in {"chosen", "failed"}
  /\ comp' = [comp EXCEPT !.photo = "none"]
  /\ UNCHANGED <<storeVars, sendVars, cacheVars, sessionVars, historyVars>>

---------------------------------------------------------------------------
(* send, file and retryPhoto                                               *)

(* The request: the text as one entry, with a form's fields aboard.        *)
Payload(isRetry) == IF isRetry THEN Empty ELSE comp.text

(* What is sent is what the screen held when the button was pressed.       *)
Sending(isRetry) ==
  [id |-> pressed + 1, mount |-> comp.mount, at |-> comp.at,
   text |-> Payload(isRetry),
   photo |-> comp.photo # "none", photoAt |-> comp.photoAt,
   retry |-> isRetry, done |-> FALSE,
   stage |-> IF isRetry \/ comp.text = Empty THEN "photo" ELSE "text",
   before |-> IF comp.at \in Timelines THEN shown[comp.at] ELSE {}]

(* A composer sends a text, a photo or both.                               *)
CanSend == comp.text # Empty \/ comp.photo # "none"

(* A form that can be filed again once it is filed.                        *)
MaySendAgain == ~Busy /\ IF comp.at = New THEN comp.text # Empty ELSE CanSend

(* A form needs its summary and is filed once.                             *)
MaySend ==
  /\ ~Busy
  /\ IF comp.at = New THEN comp.text # Empty /\ ~comp.filed
                      ELSE CanSend

(* onMutate: the record's reads are cancelled and the entry is shown.      *)
PressSend ==
  /\ OnScreen /\ pressed < MaxSends /\ Room /\ MaySend
  /\ LET w == Sending(FALSE)
     IN /\ sends' = sends \cup {w} /\ pressed' = pressed + 1
        /\ IF w.stage = "text" /\ comp.at \in Timelines
             THEN /\ shown' = [shown EXCEPT ![comp.at] = @ \cup {comp.text}]
                  /\ stale' = stale \ {comp.at}
             ELSE UNCHANGED <<shown, stale>>
        /\ comp' = IF w.stage = "photo" THEN [comp EXCEPT !.photo = "uploading"]
                                        ELSE comp
  /\ UNCHANGED <<storeVars, journal, sessionVars, historyVars>>

(* Retry on a failed photo: of a form it goes to the number it was filed   *)
(* under.                                                                  *)
RetryPhoto ==
  /\ OnScreen /\ comp.photo = "failed" /\ pressed < MaxSends /\ Room
  /\ comp.at = New => comp.filed /\ ~Busy
  /\ sends' = sends \cup {Sending(TRUE)} /\ pressed' = pressed + 1
  /\ comp' = [comp EXCEPT !.photo = "uploading"]
  /\ UNCHANGED <<storeVars, cacheVars, sessionVars, historyVars>>

(* The server appends the entry, files the record or attaches the photo.   *)
SendCommits(w) ==
  /\ ~w.done
  /\ sends' = (sends \ {w}) \cup {[w EXCEPT !.done = TRUE]}
  /\ journal' = IF w.stage = "text" /\ w.at \in Timelines
                  THEN [journal EXCEPT ![w.at] = @ \cup {w.text}] ELSE journal
  /\ filings' = IF w.stage = "text" /\ w.at = New
                  THEN [filings EXCEPT ![w.mount] = @ + 1] ELSE filings
  /\ UNCHANGED <<storeVars, comp, pressed, shown, stale, sessionVars, typedAt, acked,
                 erased, unheard>>

(* The screen of the send, if it is still there.                           *)
Mine(w) == w.mount = comp.mount
OnMine(w, c) == comp' = IF Mine(w) THEN c ELSE comp

(* onFiled replaces whatever screen is on top by the new record.           *)
FiledAndGone == Show(Away)

MarkStale(w) == stale' = stale \cup ({w.at} \cap Timelines)

(* The text is in: the composer and the draft of its target are cleared,   *)
(* and the photo that was there at the press goes next.                    *)
TextSucceeds(w) ==
  /\ w.stage = "text" /\ w.done /\ Len(queue) < MaxQueue
  /\ acked' = acked \cup {w.text}
  /\ MarkStale(w)
  /\ IF w.photo
       THEN /\ sends' = (sends \ {w}) \cup {[w EXCEPT !.stage = "photo", !.done = FALSE]}
            /\ OnMine(w, [comp EXCEPT !.text = Empty, !.dirty = FALSE, !.photo = "uploading"])
            /\ queue' = Append(queue, clearDraft(w.at))
       ELSE /\ sends' = sends \ {w}
            /\ IF w.at = New
                 THEN /\ comp.mount < MaxMounts
                      /\ comp' = Composer(Away, comp.mount + 1)
                      /\ queue' = Append(queue, clearDraft(w.at))
                                    \o (IF Mine(w) THEN <<>> ELSE Flushed)
                 ELSE /\ OnMine(w, [comp EXCEPT !.text = Empty, !.dirty = FALSE])
                      /\ queue' = Append(queue, clearDraft(w.at))
  /\ UNCHANGED <<disk, lost, pressed, journal, shown, sessionVars, typedAt, erased,
                 filings, unheard>>

(* The server took the form and its screen is told that it failed.         *)
CountUnheard(w) ==
  unheard' = IF w.at = New /\ w.done THEN [unheard EXCEPT ![w.mount] = @ + 1]
             ELSE unheard

(* A failure that is not followed by a read.                               *)
TextFailsUnread(w) ==
  /\ w.stage = "text"
  /\ sends' = sends \ {w}
  /\ shown' = IF w.at \in Timelines THEN [shown EXCEPT ![w.at] = w.before] ELSE shown
  /\ CountUnheard(w)
  /\ UNCHANGED <<storeVars, comp, pressed, journal, stale, sessionVars, typedAt, acked,
                 erased, filings>>

(* A failure that clears the composer.                                     *)
TextFailsAndClears(w) ==
  /\ w.stage = "text"
  /\ sends' = sends \ {w}
  /\ shown' = IF w.at \in Timelines THEN [shown EXCEPT ![w.at] = w.before] ELSE shown
  /\ MarkStale(w)
  /\ OnMine(w, [comp EXCEPT !.text = Empty])
  /\ CountUnheard(w)
  /\ UNCHANGED <<storeVars, pressed, journal, sessionVars, typedAt, acked, erased, filings>>

(* Refused, or the answer lost: the cached record is put back whole and    *)
(* the text stays.                                                         *)
TextFails(w) ==
  /\ w.stage = "text"
  /\ sends' = sends \ {w}
  /\ shown' = IF w.at \in Timelines THEN [shown EXCEPT ![w.at] = w.before] ELSE shown
  /\ MarkStale(w)
  /\ CountUnheard(w)
  /\ UNCHANGED <<storeVars, comp, pressed, journal, sessionVars, typedAt, acked, erased,
                 filings>>

PhotoSucceeds(w) ==
  /\ w.stage = "photo" /\ w.done
  /\ sends' = sends \ {w}
  /\ MarkStale(w)
  /\ IF w.at = New
       THEN Len(queue) < MaxQueue /\ FiledAndGone
       ELSE OnMine(w, [comp EXCEPT !.photo = "none"]) /\ UNCHANGED queue
  /\ UNCHANGED <<disk, lost, pressed, journal, shown, sessionVars, historyVars>>

(* The chip stays with the error; a form is filed without its photo.       *)
PhotoFails(w) ==
  /\ w.stage = "photo"
  /\ sends' = sends \ {w}
  /\ OnMine(w, [comp EXCEPT !.photo = "failed", !.filed = (w.at = New)])
  /\ UNCHANGED <<storeVars, pressed, cacheVars, sessionVars, historyVars>>

ContinueWithout ==
  /\ comp.at = New /\ comp.filed /\ Len(queue) < MaxQueue
  /\ FiledAndGone
  /\ UNCHANGED <<disk, lost, sendVars, cacheVars, sessionVars, historyVars>>

(* The read of the record on screen after a send has settled.              *)
ReadRecord(r) ==
  /\ r \in stale /\ comp.at = r
  /\ shown' = [shown EXCEPT ![r] = journal[r]]
  /\ stale' = stale \ {r}
  /\ UNCHANGED <<storeVars, comp, sendVars, journal, sessionVars, historyVars>>

---------------------------------------------------------------------------
(* The end of a session and of the app.                                    *)

(* runEnd: the stored drafts are removed first...                          *)
EndSession ==
  /\ comp.at # Login /\ ~ending /\ ends < MaxEnds /\ Len(queue) < MaxQueue
  /\ ending' = TRUE /\ ends' = ends + 1
  /\ queue' = Append(queue, Remove)
  /\ UNCHANGED <<disk, lost, comp, sendVars, cacheVars, historyVars>>

(* ...and once that is done the screens go, which flushes the composer.    *)
StorageRemoves ==
  /\ queue # <<>> /\ Head(queue).kind = "remove" /\ comp.mount < MaxMounts
  /\ disk' = [t \in Targets |-> Empty]
  /\ queue' = Tail(queue) \o Flushed
  /\ comp' = Composer(Login, comp.mount + 1)
  /\ ending' = FALSE
  /\ stale' = Timelines
  /\ UNCHANGED <<lost, sendVars, journal, shown, ends, historyVars>>

SignIn ==
  /\ comp.at = Login
  /\ comp' = [comp EXCEPT !.at = Away]
  /\ UNCHANGED <<storeVars, sendVars, cacheVars, sessionVars, historyVars>>

(* The app is killed: the stored drafts are what is left.  runEnd has      *)
(* cleared the stored token before it comes to the drafts, but may have    *)
(* failed to.                                                              *)
Restart ==
  /\ comp.mount < MaxMounts /\ ends < MaxEnds
  /\ \E t \in (IF ending \/ comp.at = Login THEN {Login, Away} ELSE {Away}) :
       comp' = Composer(t, comp.mount + 1)
  /\ queue' = <<>> /\ sends' = {} /\ stale' = Timelines
  /\ ending' = FALSE /\ ends' = ends + 1
  /\ UNCHANGED <<disk, lost, pressed, journal, shown, historyVars>>

---------------------------------------------------------------------------

Storage == StorageReads \/ StorageWrites \/ StorageRemoves
Answers == \E w \in sends : \/ SendCommits(w) \/ TextSucceeds(w) \/ TextFails(w)
                            \/ PhotoSucceeds(w) \/ PhotoFails(w)

ComposeNext ==
  \/ Storage \/ Answers
  \/ TypeText \/ Erase \/ Write
  \/ \E t \in Targets \cup {Away} : Open(t)
  \/ ChoosePhoto \/ RemovePhoto \/ PressSend \/ RetryPhoto \/ ContinueWithout
  \/ \E r \in Timelines : ReadRecord(r)
  \/ EndSession \/ SignIn \/ Restart

ComposeSpec == ComposeInit /\ [][ComposeNext]_composeVars

---------------------------------------------------------------------------

ComposeTypeOK ==
  /\ disk \in [Targets -> Typed \cup {Empty}]
  /\ \A i \in DOMAIN queue : queue[i].kind \in {"get", "set", "remove"}
  /\ comp.at \in Targets \cup {Away, Login} /\ comp.mount \in 1 .. MaxMounts
  /\ comp.text \in Typed \cup {Empty}
  /\ comp.photo \in {"none", "chosen", "uploading", "failed"}
  /\ pressed \in 0 .. MaxSends /\ ends \in 0 .. MaxEnds /\ ending \in BOOLEAN
  /\ \A w \in sends : /\ w.id \in 1 .. pressed /\ w.at \in Targets
                      /\ w.stage \in {"text", "photo"} /\ w.text \in Typed \cup {Empty}
  /\ \A r \in Timelines : journal[r] \cup shown[r] \subseteq Typed
  /\ stale \subseteq Timelines /\ lost \subseteq Targets
  /\ Len(typedAt) <= MaxTyped /\ acked \cup erased \subseteq Typed

(* A text and a photo go to the record they were entered on, also when the *)
(* screen has moved to another record under the composer meanwhile: the    *)
(* key on the record's screen.                                             *)
SentWhereTyped ==
  \A w \in sends : /\ w.text # Empty => typedAt[w.text] = w.at
                   /\ w.photo => w.photoAt = w.at

(* While its screen stays, a text leaves the composer only when the user   *)
(* changes it or a send of that screen has succeeded: a send that failed,  *)
(* or whose answer was lost, keeps it.                                     *)
TextLeavesOnlySent ==
  [][/\ comp.text # Empty /\ comp'.text = Empty
     /\ comp'.mount = comp.mount /\ ~comp'.dirty
     => \E w \in sends \ sends' : w.mount = comp.mount /\ w.text \in acked']_composeVars

(* Once the storage is quiet, the text in the composer, or a newer one of  *)
(* the same target, is on the device, whatever the order of debounce,      *)
(* blur, unmount, late loads and restarts.  Three cases are left out: a    *)
(* text of the target was erased, also an older one shown by a late load,  *)
(* whose clear takes a newer draft with it; a send of the target           *)
(* succeeded, whose clear takes a text typed since with it; another        *)
(* target's write undid the draft.                                         *)
DraftIsStored ==
  (OnScreen /\ queue = <<>> /\ ~comp.dirty /\ comp.text # Empty /\ comp.at \notin lost)
  => \/ disk[comp.at] >= comp.text
     \/ \E v \in erased : typedAt[v] = comp.at
     \/ \E v \in acked : typedAt[v] = comp.at

(* Once no send of it is out and it has been read, the record on screen    *)
(* shows the entries the server has: putting the whole record back after a *)
(* failure may hide an entry, and only the read afterwards brings it back. *)
(* (And the state keeps its types.)                                        *)
JournalIsTrue ==
  /\ ComposeTypeOK
  /\ \A r \in Timelines \ stale :
       (\A w \in sends : ~(w.at = r /\ w.stage = "text")) => shown[r] = journal[r]

(* The server takes a form once, whatever follows: neither a photo that    *)
(* fails afterwards nor a press while it is out files it again.  Excepted  *)
(* is a filing whose answer was lost: the form says that it failed, stays  *)
(* as it was (NewIncidentScreen.tsx:125) and can be filed again.           *)
FiledOnce == \A m \in 1 .. MaxMounts : filings[m] <= 1 + unheard[m]

(* The same without the exception, which does not hold: filing has no key  *)
(* by which the server would know a form it has already taken.             *)
FiledOnceDespiteLoss == \A m \in 1 .. MaxMounts : filings[m] <= 1

(* What drafts.ts and the plan say of a sign-out: once it is over, no      *)
(* draft is left on the device.                                            *)
SignOutClearsDrafts ==
  comp.at = Login /\ queue = <<>> => \A t \in Targets : disk[t] = Empty
=============================================================================
