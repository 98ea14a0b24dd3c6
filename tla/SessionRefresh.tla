--------------------------- MODULE SessionRefresh ---------------------------
(***************************************************************************)
(* The browser session: the tabs of one browser profile share a cookie jar *)
(* with one access and one refresh token.  A request that comes back 401   *)
(* makes its tab refresh the pair; the tab's other requests wait for that  *)
(* refresh, and the tabs take turns by a web lock or, where the browser    *)
(* has none, by a lease in localStorage.  The backend rotates the refresh  *)
(* token at each use and blacklists the one it was given, so a refresh     *)
(* that goes out twice, or whose answer is lost, ends the session.         *)
(*                                                                         *)
(* Sources: src/frontend/lib/auth, src/frontend/lib/api/client.ts and the  *)
(* route handlers of src/frontend/app/api/auth.  A pair of tokens is a     *)
(* number, the order in which the backend issued it; 0 is no cookie.       *)
(***************************************************************************)
EXTENDS Naturals, FiniteSets, Sequences

CONSTANTS
  Tabs,        \* the open tabs of the profile
  Requests,    \* API requests, each sent at most once by the user interface
  TabOf,       \* the tab a request belongs to
  Probes,      \* the requests that are session checks (getApiSessionOutcome)
  Mishaps,     \* which of "lost", "close", "ends", "logout" may happen
  MaxCalls,    \* bound on what users ask: a request is one call, a login,
               \*   which refreshes at once, is two
  MaxCauses,   \* bound on the logins and the causes that mishaps add up to
  None

ASSUME TabsAssumption == /\ TabOf \in [Requests -> Tabs]
                         /\ Probes \subseteq Requests
                         /\ None \notin Tabs \cup Nat \cup {"refreshed"}
                         /\ MaxCalls \in Nat /\ MaxCauses \in Nat
                         /\ Mishaps \subseteq {"lost", "close", "ends", "logout"}

VARIABLES
  mode,        \* "locks" or "lease": has the browser navigator.locks
  jar,         \* the pair in the cookie jar
  issued,      \* how many pairs the backend has issued
  spent,       \* refresh tokens the backend refuses
  expiredUpTo, \* access tokens up to this one are past their expiry
  signedIn,    \* per tab: isAuthenticated of the auth store
  loggingIn,   \* tabs whose login waits for the refresh that follows it
  logins,      \* how many logins there were
  leaving,     \* per tab: the cookie its POST /api/auth/logout took, or None
  req,         \* per request: where it is
  via,         \* per request: the pair it was last sent with
  retried,     \* the requests with _retry set
  pc,          \* per tab: where its refresh is ("idle": no inflightRefresh)
  call,        \* per tab: its POST /api/auth/refresh
  cooldown,    \* tabs whose last refresh got no answer on the session
  holder,      \* the tab that holds the web lock, or None
  lockQueue,   \* the tabs that wait for it, in the order they asked
  lease,       \* the lease in localStorage
  stood,       \* listening tabs whose opponent's lease still stands
  news,        \* per waiting tab: the stored outcome, None while it is the baseline
  causes       \* history: what has happened that may end a session

session == <<jar, issued, spent, expiredUpTo>>
users   == <<signedIn, loggingIn, logins, leaving>>
asking  == <<req, via, retried>>
turn    == <<holder, lockQueue, lease, stood, news>>
vars    == <<mode, session, users, asking, pc, call, cooldown, turn, causes>>

Statuses  == {"refreshed", "expired", "transient"}
NoCall    == [phase |-> "none", pair |-> 0]
NoLease   == [owner |-> None, live |-> FALSE]
Leader(t) == {r \in Requests : TabOf[r] = t /\ req[r] = "leading"}
Waiters(t) == {r \in Requests : TabOf[r] = t /\ req[r] \in {"leading", "waiting"}}
RefreshOut == {t \in Tabs : call[t].phase # "none"}

TypeOK ==
  /\ mode \in {"locks", "lease"}
  /\ jar \in Nat /\ issued \in Nat /\ expiredUpTo \in Nat /\ spent \subseteq Nat
  /\ signedIn \in [Tabs -> BOOLEAN]
  /\ loggingIn \subseteq Tabs
  /\ logins \in Nat
  /\ leaving \in [Tabs -> Nat \cup {None}]
  /\ req \in [Requests -> {"idle", "sent", "waiting", "leading", "settled"}]
  /\ via \in [Requests -> Nat]
  /\ retried \subseteq Requests
  /\ pc \in [Tabs -> {"idle", "queued", "deciding", "writing", "verifying",
                      "listening", "sending"}]
  /\ call \in [Tabs -> [phase : {"none", "sent", "rotated", "refused", "unavailable"},
                        pair : Nat]]
  /\ cooldown \subseteq Tabs
  /\ holder \in Tabs \cup {None}
  /\ lockQueue \in Seq(Tabs)
  /\ lease \in [owner : Tabs \cup {None}, live : BOOLEAN]
  /\ stood \subseteq Tabs
  /\ news \in [Tabs -> Statuses \cup {None}]
  /\ causes \subseteq {"logout", "badlogin", "ends", "lost", "overlap", "overtaken"}

Init ==
  /\ mode \in {"locks", "lease"}
  /\ jar = 1 /\ issued = 1 /\ spent = {} /\ expiredUpTo = 0
  /\ signedIn = [t \in Tabs |-> TRUE]
  /\ loggingIn = {} /\ logins = 0
  /\ leaving = [t \in Tabs |-> None]
  /\ req = [r \in Requests |-> "idle"]
  /\ via = [r \in Requests |-> 0]
  /\ retried = {}
  /\ pc = [t \in Tabs |-> "idle"]
  /\ call = [t \in Tabs |-> NoCall]
  /\ cooldown = {}
  /\ holder = None /\ lockQueue = << >> /\ lease = NoLease /\ stood = {}
  /\ news = [t \in Tabs |-> None]
  /\ causes = {}

-----------------------------------------------------------------------------
(* The order of the tabs: web lock, lease and shared outcome               *)

(* refreshAccessToken past its cooldown: a refresh under way is joined,    *)
(* else the baseline is read and the tab asks for its turn.                *)
CoordinateRefresh(t) ==
  IF pc[t] # "idle"
  THEN UNCHANGED <<pc, lockQueue>>
  ELSE IF mode = "locks"
       THEN /\ pc' = [pc EXCEPT ![t] = "queued"]
            /\ lockQueue' = Append(lockQueue, t)
       ELSE /\ pc' = [pc EXCEPT ![t] = "deciding"]
            /\ UNCHANGED lockQueue

(* performRefresh up to its await: the browser adds the cookies of now.    *)
PerformRefresh(t) ==
  /\ pc' = [pc EXCEPT ![t] = "sending"]
  /\ call' = [call EXCEPT ![t] = [phase |-> "sent", pair |-> jar]]

DeliverToLeader(t, status, newJar) ==       \* Fault: failedQueue left waiting
  LET again == IF status = "refreshed" THEN Waiters(t) ELSE {}
      over  == IF status = "refreshed" THEN {} ELSE Leader(t) IN
  /\ req' = [r \in Requests |-> CASE r \in again -> "sent"
                                  [] r \in over  -> "settled"
                                  [] OTHER       -> req[r]]
  /\ via' = [r \in Requests |-> CASE r \in again -> newJar
                                  [] r \in over  -> 0
                                  [] OTHER       -> via[r]]
  /\ retried' = retried \ over
  /\ signedIn' = signedIn /\ loggingIn' = loggingIn \ {t}
  /\ UNCHANGED <<logins, leaving>>

(* What the awaiting code of tab t does with the outcome of its refresh:   *)
(* processQueue, logout and redirect in the response interceptor, the rest *)
(* of applyLoginTokens.  newJar is the jar the retries are sent with.      *)
Deliver(t, status, newJar) ==
  LET again == IF status = "refreshed" THEN Waiters(t) ELSE {}
      over  == Waiters(t) \ again IN
  /\ req' = [r \in Requests |-> CASE r \in again -> "sent"
                                  [] r \in over  -> "settled"
                                  [] OTHER       -> req[r]]
  /\ via' = [r \in Requests |-> CASE r \in again -> newJar
                                  [] r \in over  -> 0
                                  [] OTHER       -> via[r]]
  /\ retried' = retried \ over
  /\ signedIn' = [signedIn EXCEPT ![t] =
       CASE status = "expired"   -> @ /\ Leader(t) = {} /\ t \notin loggingIn
         [] status = "refreshed" -> @ \/ (t \in loggingIn /\ newJar # 0)
         [] OTHER                -> @]
  /\ loggingIn' = loggingIn \ {t}
  /\ UNCHANGED <<logins, leaving>>

(* Take over what another tab has published since the baseline.            *)
TakeOver(t) ==
  /\ news[t] # None
  /\ pc' = [pc EXCEPT ![t] = "idle"]
  /\ news' = [news EXCEPT ![t] = None]
  /\ Deliver(t, news[t], jar)
  /\ UNCHANGED <<mode, session, call, cooldown, lease, causes>>

LockGrantedTwice(t) ==                      \* Fault: a shared lock
  /\ pc[t] = "queued"
  /\ lockQueue # << >> /\ Head(lockQueue) = t
  /\ lockQueue' = Tail(lockQueue)
LockGranted(t) ==
  /\ pc[t] = "queued" /\ holder = None
  /\ lockQueue # << >> /\ Head(lockQueue) = t
  /\ lockQueue' = Tail(lockQueue)

LockTakesOver(t) ==
  /\ LockGranted(t)
  /\ TakeOver(t)
  /\ UNCHANGED <<holder, stood>>

LockRefreshes(t) ==
  /\ LockGranted(t)
  /\ news[t] = None
  /\ PerformRefresh(t)
  /\ holder' = t
  /\ UNCHANGED <<mode, session, users, asking, cooldown, lease, stood, news, causes>>

(* tryAcquireStorageLease is three accesses to localStorage that other     *)
(* tabs may come between: read, write, read back.  That localStorage works  *)
(* is assumed: where it throws, the code takes the lease as acquired.      *)
ReadLease(t) ==
  /\ pc[t] = "deciding"
  /\ pc' = [pc EXCEPT ![t] = IF lease.live THEN "listening" ELSE "writing"]
  /\ stood' = IF lease.live THEN stood \cup {t} ELSE stood
  /\ UNCHANGED <<mode, session, users, asking, call, cooldown, holder,
                 lockQueue, lease, news, causes>>

WriteLease(t) ==
  /\ pc[t] = "writing"
  /\ pc' = [pc EXCEPT ![t] = "verifying"]
  /\ lease' = [owner |-> t, live |-> TRUE]
  /\ stood' = {}
  /\ causes' = causes \cup (IF lease.live THEN {"overlap"} ELSE {})
  /\ UNCHANGED <<mode, session, users, asking, call, cooldown, holder,
                 lockQueue, news>>

VerifyLease(t) ==
  /\ pc[t] = "verifying"
  /\ IF lease.owner = t
     THEN PerformRefresh(t) /\ UNCHANGED stood
     ELSE /\ pc' = [pc EXCEPT ![t] = "listening"]
          /\ stood' = IF lease.live THEN stood \cup {t} ELSE stood
          /\ UNCHANGED call
  /\ UNCHANGED <<mode, session, users, asking, cooldown, holder, lockQueue,
                 lease, news, causes>>

(* waitForSharedOutcome: the storage event, the broadcast and the poll all *)
(* accept the stored outcome once it is not the baseline.                  *)
AcceptOutcome(t) ==
  /\ pc[t] = "listening"
  /\ TakeOver(t)
  /\ stood' = stood \ {t}
  /\ UNCHANGED <<holder, lockQueue>>

(* The wait outlasts the lease it waits for; the tab tries again with the  *)
(* outcome of now, if any, as its baseline.                                *)
ListenTimeout(t) ==
  /\ pc[t] = "listening" /\ t \notin stood /\ news[t] = None
  /\ pc' = [pc EXCEPT ![t] = "deciding"]
  /\ UNCHANGED <<mode, session, users, asking, call, cooldown, turn, causes>>

(* Ten seconds pass.  The fetch the lease protects has no time limit; the  *)
(* synchronous code that takes the lease is over in far less.              *)
LeaseLapses ==
  /\ lease.live
  /\ \A t \in Tabs : pc[t] \notin {"writing", "verifying"}
  /\ lease' = [lease EXCEPT !.live = FALSE]
  /\ stood' = {}
  /\ causes' = causes \cup
       (IF \E t \in Tabs : lease.owner = t /\ pc[t] = "sending"
        THEN {"overlap"} ELSE {})
  /\ UNCHANGED <<mode, session, users, asking, pc, call, cooldown, holder,
                 lockQueue, news>>

-----------------------------------------------------------------------------
(* The refresh call: browser, route handler, Django                        *)

(* The route handler answers 401 without a cookie; Django answers 401 to a *)
(* token it has blacklisted, and otherwise rotates: the token given is     *)
(* blacklisted and a new pair issued.                                      *)
ServeRefresh(t) ==
  LET n == call[t].pair IN
  /\ call[t].phase = "sent"
  /\ IF n = 0 \/ n \in spent
     THEN /\ call' = [call EXCEPT ![t] = [phase |-> "refused", pair |-> 0]]
          /\ UNCHANGED <<spent, issued>>
     ELSE /\ spent' = spent \cup {n}
          /\ issued' = issued + 1
          /\ call' = [call EXCEPT ![t] = [phase |-> "rotated", pair |-> issued + 1]]
  /\ UNCHANGED <<mode, jar, expiredUpTo, users, asking, pc, cooldown, turn, causes>>

(* Rate limit, server error, or Django out of reach of the route handler.  *)
RefreshUnavailable(t) ==
  /\ call[t].phase = "sent"
  /\ call' = [call EXCEPT ![t] = [phase |-> "unavailable", pair |-> 0]]
  /\ UNCHANGED <<mode, session, users, asking, pc, cooldown, turn, causes>>

JarAfterAnyError(c) ==                      \* Fault: every error clears it
  IF c.phase = "rotated" THEN c.pair ELSE 0
(* applyAuthCookies, clearAuthCookies, or neither.                         *)
JarAfter(c) == CASE c.phase = "rotated" -> c.pair
                 [] c.phase = "refused" -> 0
                 [] OTHER               -> jar

StatusOfHopeful(c) ==                       \* Fault: an error taken for success
  IF c.phase = "refused" THEN "expired" ELSE "refreshed"

(* classifyRefreshError, and success.                                      *)
StatusOf(c) == CASE c.phase = "rotated" -> "refreshed"
                 [] c.phase = "refused" -> "expired"
                 [] OTHER               -> "transient"

(* The answer arrives: the browser stores its cookies, performRefresh      *)
(* classifies and publishes it, the turn passes on, the callers go on.     *)
RefreshAnswered(t) ==
  LET status == StatusOf(call[t]) IN
  /\ call[t].phase \in {"rotated", "refused", "unavailable"}
  /\ jar' = JarAfter(call[t])
  /\ cooldown' = IF status = "transient" THEN cooldown \cup {t} ELSE cooldown \ {t}
  /\ news' = [u \in Tabs |-> IF u # t /\ pc[u] # "idle" THEN status ELSE None]
  /\ call' = [call EXCEPT ![t] = NoCall]
  /\ pc' = [pc EXCEPT ![t] = "idle"]
  /\ holder' = IF holder = t THEN None ELSE holder
  /\ IF lease.owner = t
     THEN lease' = NoLease /\ stood' = {}
     ELSE UNCHANGED <<lease, stood>>
  /\ Deliver(t, status, JarAfter(call[t]))
  /\ UNCHANGED <<mode, issued, spent, expiredUpTo, lockQueue, causes>>

-----------------------------------------------------------------------------
(* Requests of the user interface                                          *)

Calls == 2 * logins + Cardinality({r \in Requests : req[r] # "idle"})

Send(r) ==
  /\ req[r] = "idle" /\ signedIn[TabOf[r]] /\ Calls < MaxCalls
  /\ req' = [req EXCEPT ![r] = "sent"]
  /\ via' = [via EXCEPT ![r] = jar]
  /\ UNCHANGED <<mode, session, users, retried, pc, call, cooldown, turn, causes>>

Settle(r) ==
  /\ req' = [req EXCEPT ![r] = "settled"]
  /\ via' = [via EXCEPT ![r] = 0]
  /\ retried' = retried \ {r}

RequestServed(r) ==
  /\ req[r] = "sent" /\ via[r] > expiredUpTo
  /\ Settle(r)
  /\ UNCHANGED <<mode, session, users, pc, call, cooldown, turn, causes>>

Refused(r) == req[r] = "sent" /\ via[r] <= expiredUpTo

(* 401 to a request that was already retried: it fails; a session check    *)
(* that fails so logs its tab out.                                         *)
RetryRefused(r) ==
  /\ Refused(r) /\ r \in retried
  /\ Settle(r)
  /\ signedIn' = [signedIn EXCEPT ![TabOf[r]] = @ /\ r \notin Probes]
  /\ UNCHANGED <<mode, session, loggingIn, logins, leaving, pc, call, cooldown,
                 turn, causes>>

(* 401 while another request of the tab leads a refresh: failedQueue.      *)
WaitForLeader(r) ==
  /\ Refused(r) /\ r \notin retried
  /\ Leader(TabOf[r]) # {}
  /\ req' = [req EXCEPT ![r] = "waiting"]
  /\ UNCHANGED <<mode, session, users, via, retried, pc, call, cooldown, turn, causes>>

(* 401 with no leader: _retry is set and this request leads a refresh.     *)
LeadRefresh(r) ==
  /\ Refused(r) /\ r \notin retried
  /\ Leader(TabOf[r]) = {}
  /\ req' = [req EXCEPT ![r] = "leading"]
  /\ retried' = retried \cup {r}
  /\ cooldown' = cooldown \ {TabOf[r]}
  /\ CoordinateRefresh(TabOf[r])
  /\ UNCHANGED <<mode, session, users, via, call, holder, lease, stood, news, causes>>

(* The same within the cooldown: the last outcome is returned at once.     *)
CooledDown(r) ==
  /\ Refused(r) /\ r \notin retried
  /\ Leader(TabOf[r]) = {}
  /\ TabOf[r] \in cooldown
  /\ Settle(r)
  /\ UNCHANGED <<mode, session, users, pc, call, cooldown, turn, causes>>

(* An access token lives an hour, a refresh takes seconds: none expires    *)
(* while a tab refreshes.                                                  *)
AccessExpires ==
  /\ expiredUpTo < issued
  /\ \A t \in Tabs : pc[t] = "idle"
  /\ expiredUpTo' = issued
  /\ UNCHANGED <<mode, jar, issued, spent, users, asking, pc, call, cooldown,
                 turn, causes>>

-----------------------------------------------------------------------------
(* Login, logout and the ends of tabs and sessions                         *)

May(mishap) == mishap \in Mishaps /\ Cardinality(causes) + logins < MaxCauses
Overtakes == IF RefreshOut = {} THEN {} ELSE {"overtaken"}

LogoutSent(t) ==
  /\ May("logout")
  /\ signedIn[t] /\ leaving[t] = None
  /\ leaving' = [leaving EXCEPT ![t] = jar]
  /\ causes' = causes \cup {"logout"}
  /\ UNCHANGED <<mode, session, signedIn, loggingIn, logins, asking, pc, call,
                 cooldown, turn>>

(* Django blacklists the token, unless the route handler cannot reach it;  *)
(* the answer clears the cookies, unless it is lost.  handleLogout goes on *)
(* in either case.                                                         *)
LogoutAnswered(t) ==
  /\ leaving[t] # None
  /\ spent' \in {spent, spent \cup ({leaving[t]} \ {0})}
  /\ jar' \in {0} \cup (IF "lost" \in Mishaps THEN {jar} ELSE {})
  /\ leaving' = [leaving EXCEPT ![t] = None]
  /\ signedIn' = [signedIn EXCEPT ![t] = FALSE]
  /\ causes' = causes \cup Overtakes
  /\ UNCHANGED <<mode, issued, expiredUpTo, loggingIn, logins, asking, pc, call,
                 cooldown, turn>>

(* The login form: the cookies are set, then applyLoginTokens refreshes    *)
(* them at once because the body of the answer holds no access token; in a *)
(* tab that cools down it fails instead.                                   *)
Login(t) ==
  /\ ~signedIn[t] /\ t \notin loggingIn /\ Calls + 2 <= MaxCalls
  /\ logins' = logins + 1
  /\ issued' = issued + 1
  /\ jar' = issued + 1
  /\ causes' = Overtakes \cup (causes \cap {"overlap"}) \cup
       (IF \E u \in Tabs : leaving[u] # None THEN {"logout"} ELSE {})
  /\ \/ loggingIn' = loggingIn \cup {t} /\ cooldown' = cooldown \ {t}
        /\ CoordinateRefresh(t)
     \/ t \in cooldown /\ UNCHANGED <<loggingIn, cooldown, pc, lockQueue>>
  /\ UNCHANGED <<mode, spent, expiredUpTo, signedIn, leaving, asking, call,
                 holder, lease, stood, news>>

(* Bad credentials: the login route clears whatever session there was.     *)
LoginRefused(t) ==
  /\ ~signedIn[t] /\ t \notin loggingIn /\ jar # 0
  /\ jar' = 0
  /\ causes' = causes \cup {"badlogin"}
  /\ UNCHANGED <<mode, issued, spent, expiredUpTo, users, asking, pc, call,
                 cooldown, turn>>

(* Django's answer does not reach the browser: the rotation stands.        *)
AnswerLost(t) ==
  /\ May("lost")
  /\ call[t].phase \in {"rotated", "refused"}
  /\ call' = [call EXCEPT ![t] = [phase |-> "unavailable", pair |-> 0]]
  /\ causes' = causes \cup {"lost"}
  /\ UNCHANGED <<mode, session, users, asking, pc, cooldown, turn>>

Without(q, t) ==
  IF \E i \in DOMAIN q : q[i] = t
  THEN LET i == CHOOSE i \in DOMAIN q : q[i] = t
       IN  SubSeq(q, 1, i - 1) \o SubSeq(q, i + 1, Len(q))
  ELSE q

(* The tab is closed or reloaded: its script is gone, its lease is not.    *)
(* Django may still rotate for a refresh that nobody awaits.               *)
TabCloses(t) ==
  LET gone == {r \in Requests : TabOf[r] = t /\ req[r] # "idle"} IN
  /\ May("close")
  /\ pc[t] # "idle" /\ leaving[t] = None
  /\ req' = [r \in Requests |-> IF r \in gone THEN "settled" ELSE req[r]]
  /\ via' = [r \in Requests |-> IF r \in gone THEN 0 ELSE via[r]]
  /\ retried' = retried \ gone
  /\ pc' = [pc EXCEPT ![t] = "idle"]
  /\ call' = [call EXCEPT ![t] = NoCall]
  /\ news' = [news EXCEPT ![t] = None]
  /\ holder' = IF holder = t THEN None ELSE holder
  /\ lockQueue' = Without(lockQueue, t)
  /\ lease' = IF lease.owner = t THEN [lease EXCEPT !.owner = None] ELSE lease
  /\ stood' = stood \ {t}
  /\ cooldown' = cooldown \ {t}
  /\ loggingIn' = loggingIn \ {t}
  /\ spent' \in {spent} \cup (IF call[t].phase = "sent"
                              THEN {spent \cup ({call[t].pair} \ {0})} ELSE {})
  /\ causes' = causes \cup
       (IF spent' # spent \/ call[t].phase \in {"rotated", "refused"} THEN {"lost"} ELSE {})
  /\ UNCHANGED <<mode, jar, issued, expiredUpTo, signedIn, logins, leaving>>

(* The refresh token's lifetime ends, or the account goes.                 *)
SessionEnds ==
  /\ May("ends")
  /\ spent' = spent \cup 1..issued
  /\ causes' = causes \cup {"ends"}
  /\ UNCHANGED <<mode, jar, issued, expiredUpTo, users, asking, pc, call, cooldown, turn>>

-----------------------------------------------------------------------------
TabStep(t) ==
  \/ LockTakesOver(t) \/ LockRefreshes(t)
  \/ ReadLease(t) \/ WriteLease(t) \/ VerifyLease(t)
  \/ AcceptOutcome(t) \/ ListenTimeout(t)
  \/ RefreshAnswered(t)

RequestStep(r) ==
  \/ RequestServed(r) \/ RetryRefused(r)
  \/ WaitForLeader(r) \/ LeadRefresh(r) \/ CooledDown(r)

UserStep ==
  \/ \E r \in Requests : Send(r)
  \/ \E t \in Tabs : LogoutSent(t) \/ Login(t) \/ LoginRefused(t)

MishapStep ==
  \/ \E t \in Tabs : AnswerLost(t) \/ TabCloses(t)
  \/ SessionEnds

Next ==
  \/ \E t \in Tabs : TabStep(t) \/ ServeRefresh(t) \/ RefreshUnavailable(t)
                     \/ LogoutAnswered(t)
  \/ \E r \in Requests : RequestStep(r)
  \/ LeaseLapses \/ AccessExpires
  \/ UserStep
  \/ MishapStep

Spec == Init /\ [][Next]_vars

(* What the program does by itself: a tab's event loop runs what is due,   *)
(* every call is answered, if only by an error, a lease runs out.  As long *)
(* as some of this can happen some of it does, in whatever order; nothing  *)
(* is promised of users or faults.                                         *)
ProgramStep ==
  \/ \E t \in Tabs : TabStep(t) \/ ServeRefresh(t) \/ RefreshUnavailable(t)
  \/ \E r \in Requests : RequestStep(r)
  \/ LeaseLapses

Fairness == WF_vars(ProgramStep)

FairSpec == Spec /\ Fairness
-----------------------------------------------------------------------------
(* Properties                                                              *)

(* The cookies survive any number of refreshes, in any order of the tabs,  *)
(* and any temporary failure of them (performRefresh, clearAuthCookies):   *)
(* they go only after a logout, an end of the session, an answer that was  *)
(* lost, or two refreshes at a time.                                       *)
CookiesKept == causes = {} => jar # 0

(* refreshAccessToken serializes the refreshes of all tabs: the browser    *)
(* has one under way, unless a lease ran out or was written twice.         *)
OneRefreshAtATime == "overlap" \notin causes => Cardinality(RefreshOut) <= 1

(* The interceptor repeats a refused request, the leader and those of      *)
(* failedQueue alike, only with other cookies than those it was refused    *)
(* with, so it does not ask twice for what the backend has denied.         *)
RetryCarriesNewPair ==
  [][\A r \in Requests :
       req[r] \in {"leading", "waiting"} /\ req'[r] = "sent" /\ via[r] # 0
         => via'[r] # via[r]]_vars

(* No request hangs: whatever its tab waits for, a lock, a lease, another  *)
(* tab's outcome, a tab that closes while it holds one of them, each       *)
(* request is answered, repeated and answered, or rejected.  A request is  *)
(* sent once, so each settles if again and again none is pending.          *)
RequestsSettle ==
  []<>(\A r \in Requests : req[r] \in {"idle", "settled"})

(* The refresh hardening "stops *unexpected* logouts from lost refresh     *)
(* cookies, refresh storms, and temporary API failures"                    *)
(* (docs/auth-hardening.md): the cookies go only where a user or the       *)
(* backend ended the session.                                              *)
TemporaryFailuresKeepSession ==
  jar = 0 => causes \cap {"logout", "ends", "badlogin"} # {}
=============================================================================
