------------------------------ MODULE Session ------------------------------
(***************************************************************************)
(* The session of the Expo client on a native device: the state machine of *)
(* session/session.ts, the single-flight refresher of api/refresh.ts and   *)
(* the auth interceptor of api/transport.ts.                               *)
(*                                                                         *)
(* JavaScript runs one callback at a time; a step goes from one awaited    *)
(* answer (network, secure store, timer) to the next and includes all that *)
(* an answer resumes, the callers that share a refresh among them.         *)
(* Answers come in any order, or fail; at most one call of each operation  *)
(* is in flight.  The server is external: a refresh token is accepted      *)
(* until it is refused for good, an access token until it expires.         *)
(***************************************************************************)
EXTENDS Integers

CONSTANTS
  Users,
  None,        \* no token, nobody
  MaxAsks,     \* bound: calls begun by the user and the screens
  MaxAges,     \* bound: times an access token gets older
  MaxRefusals, \* bound: times the server stops accepting a refresh token
  MaxLaunches  \* bound: times the app is killed and launched again

ASSUME SessionAssumption ==
  /\ None \notin Users
  /\ MaxAsks \in Nat /\ MaxAges \in Nat
  /\ MaxRefusals \in Nat /\ MaxLaunches \in Nat

(* bootstrap, signIn, signOut, refreshAuthStatus, and any RPC of a screen. *)
Ops == {"boot", "signIn", "signOut", "status", "screen"}
WhoamiCallers == {"boot", "signIn", "status"}

VARIABLES
  st,       \* state.status
  who,      \* whose GetAuthStatus answer a signedIn state holds
  tok,      \* whose access token is cached, or None
  age,      \* "fresh", "due" within the proactive window, or "expired"
  store,    \* whose refresh token the secure store holds, or None
  ref,      \* the refresher: "idle", "load" or "sent"
  body,     \* the refresh token it sent
  end,      \* runEnd: "no", "clearing" the store, or the "caches"
  at,       \* at[i]: where the operation is
  bearer,   \* bearer[i]: [user, age] of the token the call went out with
  login,    \* the user who is signing in
  refused,  \* users whose refresh token the server no longer accepts
  old,      \* what was begun before the session's last end (history)
  crossed,  \* an answer was applied across that end (history)
  denied,   \* why the server was taken to have turned it down (history)
  left,     \* the user has asked to sign out (history)
  spent     \* [asks, ages, refusals, launches] so far

client == <<st, who, tok, age, store, ref, body, end, at, bearer, login>>
history == <<old, crossed, denied, left>>
sessionVars == <<client, refused, history, spent>>

Token == [user : Users \cup {None}, age : {"fresh", "due", "expired"}]
NoBearer == [user |-> None, age |-> "fresh"]

SessionTypeOK ==
  /\ st \in {"unknown", "unreachable", "signedOut", "signedIn"}
  /\ who \in Users \cup {None}
  /\ tok \in Users \cup {None}
  /\ age \in {"fresh", "due", "expired"}
  /\ store \in Users \cup {None}
  /\ ref \in {"idle", "load", "sent"}
  /\ body \in Users \cup {None}
  /\ end \in {"no", "clearing", "caches"}
  /\ at \in [Ops -> {"idle", "load", "refresh", "login", "save", "proactive",
                     "sent", "reactive", "resent", "before", "ending"}]
  /\ bearer \in [Ops -> Token]
  /\ login \in Users \cup {None}
  /\ refused \subseteq Users
  /\ old \subseteq Ops \cup {"refresher"}
  /\ crossed \in BOOLEAN /\ left \in BOOLEAN
  /\ denied \subseteq {"refused", "anonymous"}
  /\ spent \in [asks : 0 .. MaxAsks, ages : 0 .. MaxAges,
                refusals : 0 .. MaxRefusals, launches : 0 .. MaxLaunches]

(* A launch with whatever the secure store holds from an earlier one.      *)
SessionInit ==
  /\ st = "unknown" /\ who = None
  /\ tok = None /\ age = "fresh"
  /\ store \in Users \cup {None}
  /\ ref = "idle" /\ body = None
  /\ end = "no"
  /\ at = [i \in Ops |-> "idle"]
  /\ bearer = [i \in Ops |-> NoBearer]
  /\ login = None
  /\ refused = {}
  /\ old = {} /\ crossed = FALSE /\ denied = {} /\ left = FALSE
  /\ spent = [asks |-> 0, ages |-> 0, refusals |-> 0, launches |-> 0]

(***************************************************************************)
(* Helpers.  Each says what becomes of some of the variables.              *)
(***************************************************************************)
Busy == {i \in Ops : at[i] # "idle"}
        \cup (IF ref = "idle" THEN {} ELSE {"refresher"})

Accepted(t) == t.user # None /\ t.age # "expired"
Cached == [user |-> tok, age |-> age]

SetState(s, u) == st' = s /\ who' = u

(* Mutant: the access token stays cached.                                  *)
EndLocallyKeepsToken ==
  IF end = "no"
    THEN /\ end' = "clearing"
         /\ old' = Busy
         /\ UNCHANGED <<tok, age>>
    ELSE UNCHANGED <<tok, age, end, old>>

(* endLocally: an end that is running is shared.                           *)
EndLocally ==
  IF end = "no"
    THEN /\ tok' = None /\ age' = "fresh"
         /\ end' = "clearing"
         /\ old' = Busy
    ELSE UNCHANGED <<tok, age, end, old>>

(* expiringWithin: only a cached token is refreshed before a call.         *)
Expiring == tok # None /\ age # "fresh"

(* refresh(): join the refresh in flight or start one.                     *)
JoinRefresh == ref' = IF ref = "idle" THEN "load" ELSE ref

(* A call of operation i through the interceptor.                          *)
Call(i) ==
  \/ /\ Expiring
     /\ at' = [at EXCEPT ![i] = "proactive"]
     /\ JoinRefresh
     /\ UNCHANGED bearer
  \/ /\ ~Expiring
     /\ at' = [at EXCEPT ![i] = "sent"]
     /\ bearer' = [bearer EXCEPT ![i] = Cached]
     /\ UNCHANGED ref

(* The user, or a screen, begins a call.                                   *)
Asked == /\ spent.asks < MaxAsks
         /\ spent' = [spent EXCEPT !.asks = @ + 1]

(* Operation i is done; its answer crossed the end of the session if it    *)
(* changes the client's state during an end, or after one it was begun     *)
(* before.                                                                 *)
Finish(i) == /\ at' = [at EXCEPT ![i] = "idle"]
             /\ bearer' = [bearer EXCEPT ![i] = NoBearer]
Applied(i) == /\ crossed' = (crossed \/ i \in old \/ end # "no")
              /\ old' = old \ {i}

(***************************************************************************)
(* bootstrap                                                               *)
(***************************************************************************)
(* On mount, and from the retry button of the unreachable screen.          *)
Bootstrap ==
  /\ at["boot"] = "idle" /\ st \in {"unknown", "unreachable"}
  /\ SetState("unknown", None)
  /\ at' = [at EXCEPT !["boot"] = "load"]
  /\ old' = old \ {"boot"}
  /\ IF st = "unknown" THEN UNCHANGED spent ELSE Asked
  /\ UNCHANGED <<tok, age, store, ref, body, end, bearer, login, refused,
                 crossed, denied, left>>

(* The store is empty, or cannot be read.                                  *)
NothingStored ==
  /\ at["boot"] = "load"
  /\ SetState("signedOut", None)
  /\ Finish("boot") /\ Applied("boot")
  /\ UNCHANGED <<tok, age, store, ref, body, end, login, refused,
                 denied, left, spent>>

TokenStored ==
  /\ at["boot"] = "load" /\ store # None
  /\ at' = [at EXCEPT !["boot"] = "refresh"]
  /\ JoinRefresh
  /\ UNCHANGED <<st, who, tok, age, store, body, end, bearer, login, refused,
                 history, spent>>

(***************************************************************************)
(* The refresher; its outcome resumes everybody who waits for it.          *)
(***************************************************************************)

LoadRefreshToken ==
  /\ ref = "load"
  /\ ref' = "sent" /\ body' = store
  /\ UNCHANGED <<st, who, tok, age, store, end, at, bearer, login, refused,
                 history, spent>>

Waiting == {i \in Ops : at[i] \in {"refresh", "proactive", "reactive"}}

(* Refreshed: boot asks who we are, a proactive caller goes out, a         *)
(* reactive one goes out again, all with the new token.                    *)
Refreshed ==
  /\ ref = "sent" /\ body # None /\ body \notin refused
  /\ ref' = "idle" /\ body' = None
  /\ tok' = body /\ age' = "fresh"
  /\ at' = [i \in Ops |-> IF i \notin Waiting THEN at[i]
                          ELSE IF at[i] = "reactive" THEN "resent"
                          ELSE "sent"]
  /\ bearer' = [i \in Ops |-> IF i \notin Waiting THEN bearer[i]
                              ELSE [user |-> body, age |-> "fresh"]]
  /\ Applied("refresher")
  /\ UNCHANGED <<st, who, store, end, login, refused, denied, left,
                 spent>>

(* Mutant: nobody listens to the refresher.                                *)
RefreshSignedOutUnheard ==
  /\ ref = "sent" /\ body \in refused \cup {None}
  /\ ref' = "idle" /\ body' = None
  /\ tok' = None /\ age' = "fresh"
  /\ at' = [i \in Ops |-> CASE at[i] \in {"refresh", "reactive"} -> "idle"
                            [] at[i] = "proactive" -> "sent"
                            [] OTHER -> at[i]]
  /\ bearer' = [i \in Ops |-> IF at[i] = "proactive" \/ at'[i] = "idle"
                                THEN NoBearer ELSE bearer[i]]
  /\ old' = old \ {"refresher"}
  /\ denied' = denied \cup {"refused"}
  /\ UNCHANGED <<st, who, store, end, login, refused, crossed, left,
                 spent>>

(* A definitive Unauthenticated: the cache is cleared and the session      *)
(* ends; boot waits for that end, a proactive caller goes out anonymous, a *)
(* reactive one has failed.                                                *)
RefreshSignedOut ==
  /\ ref = "sent" /\ body \in refused \cup {None}
  /\ ref' = "idle" /\ body' = None
  /\ tok' = None /\ age' = "fresh"
  /\ end' = IF end = "no" THEN "clearing" ELSE end
  /\ at' = [i \in Ops |-> CASE at[i] = "refresh" -> "ending"
                            [] at[i] = "proactive" -> "sent"
                            [] at[i] = "reactive" -> "idle"
                            [] OTHER -> at[i]]
  /\ bearer' = [i \in Ops |-> IF at[i] = "proactive" \/ at'[i] = "idle"
                                THEN NoBearer ELSE bearer[i]]
  /\ crossed' = (crossed \/ "refresher" \in old)
  /\ old' = IF end = "no" THEN Busy \ {"refresher"} ELSE old \ {"refresher"}
  /\ denied' = denied \cup {"refused"}
  /\ UNCHANGED <<st, who, store, login, refused, left, spent>>

(* Anything else is transient, a store that cannot be read included: the   *)
(* tokens stay.  Boot is unreachable, a proactive caller goes out with     *)
(* what is cached, a reactive one has failed.                              *)
RefreshFailed ==
  /\ ref \in {"load", "sent"}
  /\ ref' = "idle" /\ body' = None
  /\ IF at["boot"] = "refresh" THEN SetState("unreachable", None)
                               ELSE UNCHANGED <<st, who>>
  /\ at' = [i \in Ops |-> CASE at[i] \in {"refresh", "reactive"} -> "idle"
                            [] at[i] = "proactive" -> "sent"
                            [] OTHER -> at[i]]
  /\ bearer' = [i \in Ops |-> IF at[i] = "proactive" THEN Cached
                              ELSE IF at'[i] = "idle" THEN NoBearer
                              ELSE bearer[i]]
  /\ old' = old \ {"refresher"}
  /\ UNCHANGED <<tok, age, store, end, login, refused, crossed, denied,
                 left, spent>>

(***************************************************************************)
(* signIn                                                                  *)
(***************************************************************************)
SignIn(u) ==
  /\ at["signIn"] = "idle" /\ st = "signedOut"
  /\ at' = [at EXCEPT !["signIn"] = "login"]
  /\ login' = u
  /\ old' = old \ {"signIn"}
  /\ Asked
  /\ UNCHANGED <<st, who, tok, age, store, ref, body, end, bearer, refused,
                 crossed, denied, left>>

LoggedIn ==
  /\ at["signIn"] = "login"
  /\ at' = [at EXCEPT !["signIn"] = "save"]
  /\ refused' = refused \ {login}
  /\ UNCHANGED <<st, who, tok, age, store, ref, body, end, bearer, login,
                 history, spent>>

(* The login, or the storing of its refresh token, fails: signIn throws.   *)
SignInFails ==
  /\ at["signIn"] \in {"login", "save"}
  /\ Finish("signIn")
  /\ UNCHANGED <<st, who, tok, age, store, ref, body, end, login,
                 refused, history, spent>>

(* Saved before the whoami; the new token is cached and the call goes out. *)
Saved ==
  /\ at["signIn"] = "save"
  /\ store' = login
  /\ tok' = login /\ age' = "fresh"
  /\ at' = [at EXCEPT !["signIn"] = "sent"]
  /\ bearer' = [bearer EXCEPT !["signIn"] =
                  [user |-> login, age |-> "fresh"]]
  /\ denied' = {} /\ left' = FALSE
  /\ UNCHANGED <<st, who, ref, body, end, login, refused, old, crossed,
                 spent>>

(***************************************************************************)
(* GetAuthStatus's answer                                                  *)
(***************************************************************************)
(* The caller is who the Bearer says: signed in.  signIn does not look at  *)
(* auth.authenticated.                                                     *)
WhoamiKnown(i) ==
  /\ at[i] = "sent"
  /\ Accepted(bearer[i]) \/ i = "signIn"
  /\ SetState("signedIn", bearer[i].user)
  /\ Finish(i) /\ Applied(i)
  /\ UNCHANGED <<tok, age, store, ref, body, end, login, refused,
                 denied, left, spent>>

(* The server saw no valid token: not a session, although nobody asked     *)
(* whether the refresh token is still good.                                *)
WhoamiAnonymous(i) ==
  /\ i \in {"boot", "status"}
  /\ at[i] = "sent" /\ ~Accepted(bearer[i])
  /\ EndLocally
  /\ at' = [at EXCEPT ![i] = "ending"]
  /\ crossed' = (crossed \/ i \in old)
  /\ denied' = denied \cup {"anonymous"}
  /\ UNCHANGED <<st, who, store, ref, body, bearer, login, refused, left,
                 spent>>

(* No answer: boot and signIn do not know who we are, status keeps what it *)
(* knows.                                                                  *)
WhoamiFails(i) ==
  /\ at[i] = "sent"
  /\ IF i = "status"
       THEN old' = old \ {i} /\ UNCHANGED <<st, who, crossed>>
       ELSE SetState("unreachable", None) /\ Applied(i)
  /\ Finish(i)
  /\ UNCHANGED <<tok, age, store, ref, body, end, login, refused,
                 denied, left, spent>>

RefreshAuthStatus ==
  /\ at["status"] = "idle" /\ st = "signedIn"
  /\ Call("status")
  /\ old' = old \ {"status"}
  /\ Asked
  /\ UNCHANGED <<st, who, tok, age, store, body, end, login, refused, crossed,
                 denied, left>>

(***************************************************************************)
(* Any other RPC of a screen                                               *)
(***************************************************************************)
ScreenCall ==
  /\ at["screen"] = "idle" /\ st = "signedIn"
  /\ Call("screen")
  /\ old' = old \ {"screen"}
  /\ Asked
  /\ UNCHANGED <<st, who, tok, age, store, body, end, login, refused, crossed,
                 denied, left>>

(* Unauthenticated: refresh once and send the call again.                  *)
ScreenUnauthenticated ==
  /\ at["screen"] = "sent" /\ ~Accepted(bearer["screen"])
  /\ at' = [at EXCEPT !["screen"] = "reactive"]
  /\ JoinRefresh
  /\ Applied("screen")
  /\ UNCHANGED <<st, who, tok, age, store, body, end, bearer, login, refused,
                 denied, left, spent>>

(* An answer of another kind, or the second one.                           *)
ScreenAnswered ==
  /\ at["screen"] \in {"sent", "resent"}
  /\ Finish("screen")
  /\ UNCHANGED <<st, who, tok, age, store, ref, body, end, login,
                 refused, history, spent>>

(***************************************************************************)
(* signOut and the end of the session                                      *)
(***************************************************************************)
SignOut ==
  /\ at["signOut"] = "idle" /\ st = "signedIn"
  /\ at' = [at EXCEPT !["signOut"] = "before"]
  /\ left' = TRUE
  /\ old' = old \ {"signOut"}
  /\ Asked
  /\ UNCHANGED <<st, who, tok, age, store, ref, body, end, bearer, login,
                 refused, crossed, denied>>

(* beforeSignOut has answered or its time is up; Logout is sent without    *)
(* waiting for it.                                                         *)
BeforeSignOutDone ==
  /\ at["signOut"] = "before"
  /\ EndLocally
  /\ at' = [at EXCEPT !["signOut"] = "ending"]
  /\ crossed' = (crossed \/ "signOut" \in old)
  /\ UNCHANGED <<st, who, store, ref, body, bearer, login, refused, denied,
                 left, spent>>

(* store.clear() succeeds, or fails and is ignored.                        *)
EndStore ==
  /\ end = "clearing"
  /\ end' = "caches"
  /\ store' \in {None, store}
  /\ UNCHANGED <<st, who, tok, age, ref, body, at, bearer, login, refused,
                 history, spent>>

(* The caches are cleared; whoever shared this end goes on.                *)
EndDone ==
  /\ end = "caches"
  /\ end' = "no"
  /\ SetState("signedOut", None)
  /\ at' = [i \in Ops |-> IF at[i] = "ending" THEN "idle" ELSE at[i]]
  /\ old' = old \cup Busy
  /\ UNCHANGED <<tok, age, store, ref, body, bearer, login, refused, crossed,
                 denied, left, spent>>

(***************************************************************************)
(* The environment                                                         *)
(***************************************************************************)
Age ==
  /\ spent.ages < MaxAges
  /\ tok # None /\ age # "expired"
  /\ age' = IF age = "fresh" THEN "due" ELSE "expired"
  /\ spent' = [spent EXCEPT !.ages = @ + 1]
  /\ UNCHANGED <<st, who, tok, store, ref, body, end, at, bearer, login,
                 refused, history>>

(* The refresh token of u expires, or the server no longer knows u.        *)
Refuse(u) ==
  /\ spent.refusals < MaxRefusals
  /\ u \notin refused
  /\ refused' = refused \cup {u}
  /\ spent' = [spent EXCEPT !.refusals = @ + 1]
  /\ UNCHANGED <<client, history>>

(* The app is killed and launched again: only the secure store survives.   *)
Relaunch ==
  /\ spent.launches < MaxLaunches
  /\ SetState("unknown", None)
  /\ tok' = None /\ age' = "fresh"
  /\ ref' = "idle" /\ body' = None
  /\ end' = "no"
  /\ at' = [i \in Ops |-> "idle"]
  /\ bearer' = [i \in Ops |-> NoBearer]
  /\ login' = None
  /\ old' = {} /\ crossed' = FALSE /\ denied' = {} /\ left' = FALSE
  /\ spent' = [spent EXCEPT !.launches = @ + 1]
  /\ UNCHANGED <<store, refused>>

BootLoads == NothingStored \/ TokenStored
RefresherStep ==
  LoadRefreshToken \/ Refreshed \/ RefreshSignedOut \/ RefreshFailed
SignInStep == LoggedIn \/ SignInFails \/ Saved
Whoami(i) == WhoamiKnown(i) \/ WhoamiAnonymous(i) \/ WhoamiFails(i)
ScreenStep == ScreenUnauthenticated \/ ScreenAnswered
EndStep == EndStore \/ EndDone

(* What the user, or a screen, starts.                                     *)
Ask ==
  \/ \E u \in Users : SignIn(u)
  \/ Bootstrap \/ RefreshAuthStatus \/ ScreenCall \/ SignOut

SessionNext ==
  \/ Ask
  \/ BootLoads \/ RefresherStep \/ SignInStep \/ ScreenStep
  \/ \E i \in WhoamiCallers : Whoami(i)
  \/ BeforeSignOutDone \/ EndStep
  \/ Age \/ (\E u \in Users : Refuse(u)) \/ Relaunch

SessionSpec == SessionInit /\ [][SessionNext]_sessionVars

(* The mount effect runs, every awaited promise settles (fetch and the     *)
(* secure store answer or fail) and the timer of beforeSignOut fires; what *)
(* the user does is not fair.                                              *)
FairSession ==
  /\ SessionSpec
  /\ WF_sessionVars(Bootstrap /\ st = "unknown")
  /\ WF_sessionVars(BootLoads)
  /\ WF_sessionVars(RefresherStep)
  /\ WF_sessionVars(SignInStep)
  /\ WF_sessionVars(ScreenStep)
  /\ \A i \in WhoamiCallers : WF_sessionVars(Whoami(i))
  /\ WF_sessionVars(BeforeSignOutDone) /\ WF_sessionVars(EndStep)

(***************************************************************************)
(* Properties.                                                             *)
(***************************************************************************)
(* A device that is signed in, or about to be, can resume that session     *)
(* after a crash: the store holds the refresh token of the user the state  *)
(* names.  (An answer from before the last end of a session excepted.)     *)
SessionCanResume ==
  ~crossed /\ end = "no" =>
    /\ st = "signedIn" => store = who
    /\ at["signIn"] = "sent" => store = login

(* The cached access token is that of the user the screens show, and a     *)
(* session that has ended, with nothing in flight, leaves none: neither a  *)
(* shared refresh nor a shared end puts it back.  (An answer from before   *)
(* the last end excepted.)                                                 *)
TokenIsTheUsers ==
  ~crossed =>
    /\ st = "signedIn" => tok \in {who, None}
    /\ st = "signedOut" /\ (denied # {} \/ left) /\ Busy = {} => tok = None

(* The server no longer accepts the refresh token of the session that is   *)
(* ending, the stored one unless this end has already cleared the store.   *)
RefusedForGood ==
  IF st = "signedIn" THEN who \in refused
  ELSE store \in refused \/ (store = None /\ end = "caches")

(* An outage never signs a device out: a session ends only once the user   *)
(* has asked for it or its refresh token is one the server does not        *)
(* accept.  (An answer from before the last end excepted; so is the        *)
(* anonymous answer to a whoami whose access token expired while the       *)
(* refresh failed: session.ts:225-229 takes it for the end of the session, *)
(* whose refresh token may well be good.)                                  *)
OutageKeepsSession ==
  end # "no" => left \/ crossed \/ "anonymous" \in denied \/ RefusedForGood

(* "Only a definitive Unauthenticated from RefreshToken ends the session   *)
(* [...] (#189)" (session.ts:24-26): the same without the second           *)
(* exception, which does not hold.                                         *)
OnlyRefusalEnds == end # "no" => left \/ crossed \/ RefusedForGood

(* The client's session (session.ts, refresh.ts): a device that was told   *)
(* it is signed in can resume after a relaunch, the cached token is the    *)
(* signed-in user's, and an outage ends no session but through the         *)
(* anonymous answer.                                                       *)
SessionSafe == /\ SessionTypeOK
               /\ SessionCanResume
               /\ TokenIsTheUsers
               /\ OutageKeepsSession

(* Booting ends: the first screen is never "unknown" for good, whichever   *)
(* answers fail and whoever else shares the refresh or the end.            *)
NeverStuck == st = "unknown" ~> st # "unknown"

(* A sign-out ends the session (or the app is launched again), although    *)
(* every step of it may fail.                                              *)
SignOutCompletes ==
  at["signOut"] = "before" ~> st \in {"signedOut", "unknown"}

(* "Sign-out is local-first and cannot fail": who has been signed out is   *)
(* signed in again by a sign-in only.                                      *)
SignOutStands ==
  [][st = "signedOut" /\ st' = "signedIn"
       => at["signIn"] = "sent" /\ at'["signIn"] = "idle"]_sessionVars

(***************************************************************************)
(* The inductive invariant of SessionSafe.                                 *)
(***************************************************************************)
(* Where each operation can be.                                            *)
PlaceInv ==
  /\ at["boot"] \in {"idle", "load", "refresh", "sent", "ending"}
  /\ at["signIn"] \in {"idle", "login", "save", "sent"}
  /\ at["signOut"] \in {"idle", "before", "ending"}
  /\ at["status"] \in {"idle", "proactive", "sent", "ending"}
  /\ at["screen"] \in {"idle", "proactive", "sent", "reactive", "resent"}
  /\ end = "no" => \A i \in Ops : at[i] # "ending"
  /\ at["signIn"] # "idle" => login # None
  /\ ref # "sent" => body = None

(* In flight and begun since the last end of a session.                    *)
Current(i) == i \notin old /\ IF i = "refresher" THEN ref # "idle" ELSE at[i] # "idle"

(* No two of boot, sign-in and a session overlap: which operations may be  *)
(* under way follows from the state.                                       *)
PhaseInv ==
  /\ at["boot"] # "idle" => st = "unknown" /\ "boot" \notin old
  /\ at["signIn"] # "idle" => st = "signedOut" /\ "signIn" \notin old
  /\ \A i \in {"status", "screen", "signOut"} : Current(i) => st = "signedIn"
  /\ Current("refresher") => st = "signedIn" \/ at["boot"] = "refresh"

(* Between two ends every token in use is that of the stored session.      *)
TokenInv ==
  /\ st = "signedIn" => store = who /\ tok \in {who, None}
  /\ st = "signedIn" => who # None
  /\ at["boot"] = "refresh" => store # None
  /\ at["boot"] = "sent" => bearer["boot"].user = store /\ tok = store
  /\ at["signIn"] = "sent" =>
       /\ store = login /\ tok = login /\ bearer["signIn"].user = login
       /\ denied = {} /\ ~left
  /\ at["status"] = "sent" /\ Current("status") => bearer["status"].user \in {who, None}
  /\ Current("refresher") /\ ref = "sent" => body = store
  /\ st \in {"unknown", "unreachable"} => denied = {} /\ ~left
  /\ st = "signedOut" /\ (denied # {} \/ left) /\ at["signIn"] # "sent" => tok = None

(* While a session ends nothing begins another one.                        *)
EndInv ==
  /\ tok = None /\ at["signIn"] = "idle"
  /\ left \/ "anonymous" \in denied \/ ("refused" \in denied /\ RefusedForGood)
  /\ \/ st = "signedIn" /\ at["boot"] = "idle"
     \/ st = "unknown" /\ at["boot"] = "ending"

LeftInv == at["signOut"] = "before" /\ Current("signOut") => left

IInv ==
  /\ SessionTypeOK
  /\ PlaceInv
  /\ ~crossed => /\ LeftInv
                 /\ IF end = "no" THEN PhaseInv /\ TokenInv ELSE EndInv
============================================================================
