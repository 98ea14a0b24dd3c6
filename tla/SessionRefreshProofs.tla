------------------------ MODULE SessionRefreshProofs ------------------------
(* Proofs about SessionRefresh for any number of tabs and requests.         *)
EXTENDS SessionRefresh, FiniteSetTheorems, SequenceTheorems, TLAPS

-----------------------------------------------------------------------------
(* The strengthening.                                                       *)

(* A call is under way exactly where the script awaits it; news are for     *)
(* tabs that wait; each way to take turns has its own stations.             *)
Stations ==
  \A t \in Tabs :
    /\ call[t].phase # "none" <=> pc[t] = "sending"
    /\ news[t] # None => pc[t] # "idle"
    /\ mode = "locks" => pc[t] \in {"idle", "queued", "sending"}
    /\ mode = "lease" => pc[t] # "queued"

(* Who sends has the turn.                                                  *)
TurnHeld ==
  \A t \in Tabs :
    /\ mode = "locks" /\ pc[t] = "sending" => holder = t
    /\ mode = "lease" /\ pc[t] = "sending" /\ "overlap" \notin causes =>
         lease = [owner |-> t, live |-> TRUE]
    /\ pc[t] = "verifying" /\ lease.owner = t => lease.live

(* Where pairs stand in the order of their issue.                           *)
Order ==
  /\ jar <= issued /\ expiredUpTo <= issued /\ spent \subseteq 1..issued
  /\ \A t \in Tabs : call[t].phase = "rotated" =>
                       /\ call[t].pair \in 1..issued
                       /\ call[t].pair > expiredUpTo
  /\ \A t \in Tabs : call[t].phase = "sent" => call[t].pair <= issued
  /\ \A t \in Tabs : leaving[t] # None => leaving[t] <= issued
  /\ (\E t \in Tabs : news[t] = "refreshed") => jar = 0 \/ jar > expiredUpTo
  /\ \A r \in Requests : req[r] \in {"leading", "waiting"} => via[r] <= expiredUpTo

(* While nothing has happened that may end a session, the cookie is good,   *)
(* or the refresh that has just spent it is about to bring the next one.    *)
Undisturbed ==
  causes = {} =>
    /\ jar # 0
    /\ \A t \in Tabs : leaving[t] = None /\ call[t].phase # "refused"
    /\ jar \notin spent \/ \E t \in Tabs : call[t].phase = "rotated"
    /\ \A t \in Tabs : call[t].phase = "sent" => call[t].pair = jar
    /\ \A t \in Tabs : call[t].phase = "rotated" => call[t].pair \notin spent

IInv == TypeOK /\ Stations /\ TurnHeld /\ Order /\ Undisturbed

-----------------------------------------------------------------------------
(* Lemmas about the operators.                                              *)

LEMMA WithoutType ==
  ASSUME NEW S, NEW q \in Seq(S), NEW t
  PROVE  Without(q, t) \in Seq(S)
<1>1. CASE \E i \in DOMAIN q : q[i] = t
  <2>1. DEFINE i == CHOOSE i \in DOMAIN q : q[i] = t
  <2>2. i \in 1..Len(q)
    BY <1>1, LenProperties
  <2> HIDE DEF i
  <2>3. /\ Len(q) \in Nat /\ \A j \in 1..Len(q) : q[j] \in S
        /\ 1..i-1 \subseteq 1..Len(q) /\ i+1..Len(q) \subseteq 1..Len(q)
    BY <2>2, LenProperties
  <2>4. SubSeq(q, 1, i - 1) \in Seq(S)
    BY <2>2, <2>3, SubSeqProperties
  <2>5. SubSeq(q, i + 1, Len(q)) \in Seq(S)
    BY <2>2, <2>3, SubSeqProperties
  <2> QED BY <1>1, <2>4, <2>5 DEF Without
<1> QED BY <1>1 DEF Without

(* The outcome of a refresh settles the requests that wait for it or sends  *)
(* them again with the new cookies, and touches no other request.           *)
LEMMA DeliverFacts ==
  ASSUME TypeOK, NEW t \in Tabs, NEW status, NEW newJar \in Nat,
         Deliver(t, status, newJar)
  PROVE  /\ req' \in [Requests -> {"idle", "sent", "waiting", "leading", "settled"}]
         /\ via' \in [Requests -> Nat]
         /\ retried' \subseteq Requests
         /\ signedIn' \in [Tabs -> BOOLEAN] /\ loggingIn' \subseteq Tabs
         /\ logins' = logins /\ leaving' = leaving
         /\ \A r \in Requests :
              /\ req'[r] \in {"leading", "waiting"} =>
                   req'[r] = req[r] /\ via'[r] = via[r]
              /\ req[r] \in {"leading", "waiting"} /\ req'[r] = "sent" =>
                   status = "refreshed" /\ via'[r] = newJar
<1> DEFINE again == IF status = "refreshed" THEN Waiters(t) ELSE {}
           over == Waiters(t) \ again
<1>1. req' = [r \in Requests |-> CASE r \in again -> "sent"
                                  [] r \in over  -> "settled"
                                  [] OTHER       -> req[r]]
  BY DEF Deliver
<1>2. via' = [r \in Requests |-> CASE r \in again -> newJar
                                  [] r \in over  -> 0
                                  [] OTHER       -> via[r]]
  BY DEF Deliver
<1>3. again \subseteq Requests /\ over \subseteq Requests /\ again \cap over = {}
  BY DEF Waiters
<1>4. \A r \in Requests :
        /\ r \in again => req'[r] = "sent" /\ via'[r] = newJar
        /\ r \in over => req'[r] = "settled" /\ via'[r] = 0
        /\ r \notin again \cup over => req'[r] = req[r] /\ via'[r] = via[r]
  BY <1>1, <1>2, <1>3
<1>5. ASSUME NEW r \in Requests
      PROVE  /\ req'[r] \in {"idle", "sent", "waiting", "leading", "settled"}
             /\ via'[r] \in Nat
  <2>1. CASE r \in again
    BY <1>4, <2>1
  <2>2. CASE r \in over
    BY <1>4, <2>2
  <2>3. CASE r \notin again \cup over
    BY <1>4, <2>3 DEF TypeOK
  <2> QED BY <2>1, <2>2, <2>3
<1>6. /\ req' \in [Requests -> {"idle", "sent", "waiting", "leading", "settled"}]
      /\ via' \in [Requests -> Nat]
  BY <1>1, <1>2, <1>5
<1>7. /\ retried' = retried \ over /\ loggingIn' = loggingIn \ {t}
      /\ logins' = logins /\ leaving' = leaving
  BY DEF Deliver
<1>8. signedIn' \in [Tabs -> BOOLEAN]
  <2>1. signedIn' = [signedIn EXCEPT ![t] = signedIn'[t]]
    BY DEF Deliver, TypeOK
  <2>2. signedIn'[t] \in BOOLEAN
    BY DEF Deliver, TypeOK
  <2> QED BY <2>1, <2>2 DEF TypeOK
<1>9. \A r \in Requests : req[r] \in {"leading", "waiting"} /\ req'[r] = "sent" =>
                             status = "refreshed" /\ via'[r] = newJar
  BY <1>4
<1>10. \A r \in Requests : req'[r] \in {"leading", "waiting"} =>
                              req'[r] = req[r] /\ via'[r] = via[r]
  BY <1>4
<1> QED BY <1>6, <1>7, <1>8, <1>9, <1>10 DEF TypeOK

LEMMA OneMore ==
  ASSUME NEW n \in Nat, NEW S, S \subseteq 1..n, NEW k \in 1..n + 1
  PROVE  S \cup {k} \subseteq 1..n + 1
OBVIOUS

LEMMA AnswerTypes ==
  ASSUME TypeOK, NEW t \in Tabs
  PROVE  StatusOf(call[t]) \in Statuses /\ JarAfter(call[t]) \in Nat
BY DEF StatusOf, JarAfter, Statuses, TypeOK

(* Without an overlap there is one refresh at a time.                       *)
LEMMA OneSending ==
  ASSUME TypeOK, Stations, TurnHeld, "overlap" \notin causes,
         NEW t \in Tabs, NEW u \in Tabs,
         call[t].phase # "none", call[u].phase # "none"
  PROVE  t = u
BY DEF TypeOK, Stations, TurnHeld

-----------------------------------------------------------------------------
(* Each part of the invariant is kept.                                      *)

LEMMA TypeStep ==
  ASSUME TypeOK, [Next]_vars
  PROVE  TypeOK'
<1>1. CASE UNCHANGED vars
  BY <1>1 DEF vars, session, users, asking, turn, TypeOK
<1>2. ASSUME NEW t \in Tabs, LockTakesOver(t) PROVE TypeOK'
  <2>1. news[t] \in Statuses /\ jar \in Nat /\ Deliver(t, news[t], jar)
    BY <1>2 DEF LockTakesOver, TakeOver, TypeOK
  <2>2. lockQueue' \in Seq(Tabs)
    BY <1>2 DEF LockTakesOver, LockGranted, TypeOK
  <2> QED BY <1>2, <2>1, <2>2, DeliverFacts
          DEF LockTakesOver, TakeOver, session, TypeOK
<1>3. ASSUME NEW t \in Tabs, LockRefreshes(t) PROVE TypeOK'
  BY <1>3 DEF LockRefreshes, LockGranted, PerformRefresh, session, users,
     asking, TypeOK
<1>4. ASSUME NEW t \in Tabs, ReadLease(t) PROVE TypeOK'
  BY <1>4 DEF ReadLease, session, users, asking, TypeOK
<1>5. ASSUME NEW t \in Tabs, WriteLease(t) PROVE TypeOK'
  BY <1>5 DEF WriteLease, session, users, asking, TypeOK
<1>6. ASSUME NEW t \in Tabs, VerifyLease(t) PROVE TypeOK'
  <2>1. call' \in [Tabs -> [phase : {"none", "sent", "rotated", "refused",
                                     "unavailable"}, pair : Nat]]
    BY <1>6 DEF VerifyLease, PerformRefresh, TypeOK
  <2>2. pc' \in [Tabs -> {"idle", "queued", "deciding", "writing", "verifying",
                         "listening", "sending"}]
    BY <1>6 DEF VerifyLease, PerformRefresh, TypeOK
  <2>3. stood' \subseteq Tabs
    BY <1>6 DEF VerifyLease, TypeOK
  <2>4. UNCHANGED <<mode, session, users, asking, cooldown, holder, lockQueue,
                    lease, news, causes>>
    BY <1>6 DEF VerifyLease
  <2> QED BY <2>1, <2>2, <2>3, <2>4 DEF session, users, asking, TypeOK
<1>7. ASSUME NEW t \in Tabs, AcceptOutcome(t) PROVE TypeOK'
  <2>1. news[t] \in Statuses /\ jar \in Nat /\ Deliver(t, news[t], jar)
    BY <1>7 DEF AcceptOutcome, TakeOver, TypeOK
  <2> QED BY <1>7, <2>1, DeliverFacts DEF AcceptOutcome, TakeOver, session, TypeOK
<1>8. ASSUME NEW t \in Tabs, ListenTimeout(t) PROVE TypeOK'
  BY <1>8 DEF ListenTimeout, session, users, asking, turn, TypeOK
<1>9. ASSUME NEW t \in Tabs, RefreshAnswered(t) PROVE TypeOK'
  <2> DEFINE status == StatusOf(call[t])
  <2>1. status \in Statuses /\ JarAfter(call[t]) \in Nat
    BY AnswerTypes
  <2>2. Deliver(t, status, JarAfter(call[t]))
    BY <1>9 DEF RefreshAnswered
  <2>3. news' \in [Tabs -> Statuses \cup {None}]
    BY <1>9, <2>1 DEF RefreshAnswered
  <2>4. /\ call' \in [Tabs -> [phase : {"none", "sent", "rotated", "refused",
                                        "unavailable"}, pair : Nat]]
        /\ pc' \in [Tabs -> {"idle", "queued", "deciding", "writing",
                             "verifying", "listening", "sending"}]
    BY <1>9 DEF RefreshAnswered, NoCall, TypeOK
  <2>5. /\ cooldown' \subseteq Tabs /\ holder' \in Tabs \cup {None}
        /\ stood' \subseteq Tabs
    BY <1>9 DEF RefreshAnswered, TypeOK
  <2>7. lease' \in [owner : Tabs \cup {None}, live : BOOLEAN]
    <3>1. lease' \in {lease, NoLease}
      BY <1>9 DEF RefreshAnswered
    <3>2. lease \in [owner : Tabs \cup {None}, live : BOOLEAN]
      BY DEF TypeOK
    <3>3. NoLease \in [owner : Tabs \cup {None}, live : BOOLEAN]
      BY DEF NoLease
    <3> QED BY <3>1, <3>2, <3>3
  <2>6. /\ jar' \in Nat
        /\ UNCHANGED <<mode, issued, spent, expiredUpTo, lockQueue, causes>>
    BY <1>9, <2>1 DEF RefreshAnswered
  <2> HIDE DEF status
  <2> QED BY <2>1, <2>2, <2>3, <2>4, <2>5, <2>6, <2>7, DeliverFacts DEF TypeOK
<1>10. ASSUME NEW t \in Tabs, ServeRefresh(t) PROVE TypeOK'
  <2> DEFINE n == call[t].pair
  <2>1. n \in Nat
    BY DEF TypeOK
  <2>2. CASE n = 0 \/ n \in spent
    <3>1. /\ call' = [call EXCEPT ![t] = [phase |-> "refused", pair |-> 0]]
          /\ UNCHANGED <<spent, issued>>
      BY <1>10, <2>2 DEF ServeRefresh
    <3> QED BY <1>10, <3>1 DEF ServeRefresh, users, asking, turn, TypeOK
  <2>3. CASE ~(n = 0 \/ n \in spent)
    <3>1. /\ call' = [call EXCEPT ![t] = [phase |-> "rotated", pair |-> issued + 1]]
          /\ spent' = spent \cup {n} /\ issued' = issued + 1
      BY <1>10, <2>3 DEF ServeRefresh
    <3>2. issued + 1 \in Nat
      BY DEF TypeOK
    <3> HIDE DEF n
    <3> QED BY <1>10, <2>1, <3>1, <3>2 DEF ServeRefresh, users, asking, turn, TypeOK
  <2> QED BY <2>2, <2>3
<1>11. ASSUME NEW t \in Tabs, RefreshUnavailable(t) PROVE TypeOK'
  BY <1>11 DEF RefreshUnavailable, session, users, asking, turn, TypeOK
<1>12. ASSUME NEW t \in Tabs, LogoutAnswered(t) PROVE TypeOK'
  BY <1>12 DEF LogoutAnswered, Overtakes, asking, turn, TypeOK
<1>13. ASSUME NEW r \in Requests, RequestServed(r) PROVE TypeOK'
  BY <1>13 DEF RequestServed, Settle, session, users, turn, TypeOK
<1>14. ASSUME NEW r \in Requests, RetryRefused(r) PROVE TypeOK'
  BY <1>14 DEF RetryRefused, Settle, Refused, session, turn, TypeOK
<1>15. ASSUME NEW r \in Requests, WaitForLeader(r) PROVE TypeOK'
  BY <1>15 DEF WaitForLeader, Refused, session, users, turn, TypeOK
<1>16. ASSUME NEW r \in Requests, LeadRefresh(r) PROVE TypeOK'
  <2>1. TabOf[r] \in Tabs
    BY TabsAssumption
  <2>2. pc' \in [Tabs -> {"idle", "queued", "deciding", "writing", "verifying",
                         "listening", "sending"}]
    BY <1>16, <2>1 DEF LeadRefresh, CoordinateRefresh, TypeOK
  <2>3. lockQueue' \in Seq(Tabs)
    <3>1. lockQueue' \in {lockQueue, Append(lockQueue, TabOf[r])}
      BY <1>16 DEF LeadRefresh, CoordinateRefresh
    <3>2. lockQueue \in Seq(Tabs) /\ Append(lockQueue, TabOf[r]) \in Seq(Tabs)
      BY <2>1, AppendProperties DEF TypeOK
    <3> QED BY <3>1, <3>2
  <2> QED BY <1>16, <2>2, <2>3 DEF LeadRefresh, session, users, TypeOK
<1>17. ASSUME NEW r \in Requests, CooledDown(r) PROVE TypeOK'
  BY <1>17 DEF CooledDown, Settle, Refused, session, users, turn, TypeOK
<1>18. CASE LeaseLapses
  BY <1>18 DEF LeaseLapses, session, users, asking, TypeOK
<1>19. CASE AccessExpires
  BY <1>19 DEF AccessExpires, users, asking, turn, TypeOK
<1>20. ASSUME NEW r \in Requests, Send(r) PROVE TypeOK'
  BY <1>20 DEF Send, session, users, turn, TypeOK
<1>21. ASSUME NEW t \in Tabs, LogoutSent(t) PROVE TypeOK'
  BY <1>21 DEF LogoutSent, session, asking, turn, TypeOK
<1>22. ASSUME NEW t \in Tabs, Login(t) PROVE TypeOK'
  <2>1. pc' \in [Tabs -> {"idle", "queued", "deciding", "writing", "verifying",
                         "listening", "sending"}]
    BY <1>22 DEF Login, CoordinateRefresh, TypeOK
  <2>2. lockQueue' \in Seq(Tabs)
    <3>1. lockQueue' \in {lockQueue, Append(lockQueue, t)}
      BY <1>22 DEF Login, CoordinateRefresh
    <3>2. lockQueue \in Seq(Tabs) /\ Append(lockQueue, t) \in Seq(Tabs)
      BY AppendProperties DEF TypeOK
    <3> QED BY <3>1, <3>2
  <2>3. causes' \subseteq {"logout", "badlogin", "ends", "lost", "overlap", "overtaken"}
    BY <1>22 DEF Login, Overtakes, TypeOK
  <2>4. loggingIn' \subseteq Tabs /\ cooldown' \subseteq Tabs
    BY <1>22 DEF Login, TypeOK
  <2> QED BY <1>22, <2>1, <2>2, <2>3, <2>4 DEF Login, asking, TypeOK
<1>23. ASSUME NEW t \in Tabs, LoginRefused(t) PROVE TypeOK'
  BY <1>23 DEF LoginRefused, users, asking, turn, TypeOK
<1>24. ASSUME NEW t \in Tabs, AnswerLost(t) PROVE TypeOK'
  BY <1>24 DEF AnswerLost, session, users, asking, turn, TypeOK
<1>25. ASSUME NEW t \in Tabs, TabCloses(t) PROVE TypeOK'
  <2> DEFINE gone == {r \in Requests : TabOf[r] = t /\ req[r] # "idle"}
  <2>1. /\ req' \in [Requests -> {"idle", "sent", "waiting", "leading", "settled"}]
        /\ via' \in [Requests -> Nat] /\ retried' \subseteq Requests
    BY <1>25 DEF TabCloses, TypeOK
  <2>2. /\ call' \in [Tabs -> [phase : {"none", "sent", "rotated", "refused",
                                        "unavailable"}, pair : Nat]]
        /\ pc' \in [Tabs -> {"idle", "queued", "deciding", "writing",
                             "verifying", "listening", "sending"}]
        /\ news' \in [Tabs -> Statuses \cup {None}]
    BY <1>25 DEF TabCloses, NoCall, TypeOK
  <2>3. lockQueue' \in Seq(Tabs)
    BY <1>25, WithoutType DEF TabCloses, TypeOK
  <2>4. /\ holder' \in Tabs \cup {None} /\ stood' \subseteq Tabs
        /\ lease' \in [owner : Tabs \cup {None}, live : BOOLEAN]
    BY <1>25 DEF TabCloses, TypeOK
  <2>5. spent' \subseteq Nat
    BY <1>25 DEF TabCloses, TypeOK
  <2>6. /\ causes' \subseteq {"logout", "badlogin", "ends", "lost", "overlap", "overtaken"}
        /\ loggingIn' \subseteq Tabs /\ cooldown' \subseteq Tabs
        /\ UNCHANGED <<mode, jar, issued, expiredUpTo, signedIn, logins, leaving>>
    BY <1>25 DEF TabCloses, TypeOK
  <2> QED BY <2>1, <2>2, <2>3, <2>4, <2>5, <2>6 DEF TypeOK
<1>26. CASE SessionEnds
  BY <1>26 DEF SessionEnds, users, asking, turn, TypeOK
<1> QED BY <1>1, <1>2, <1>3, <1>4, <1>5, <1>6, <1>7, <1>8, <1>9, <1>10, <1>11,
       <1>12, <1>13, <1>14, <1>15, <1>16, <1>17, <1>18, <1>19, <1>20, <1>21,
       <1>22, <1>23, <1>24, <1>25, <1>26 DEF Next, TabStep, RequestStep,
       UserStep, MishapStep

LEMMA StationsStep ==
  ASSUME TypeOK, Stations, [Next]_vars
  PROVE  Stations'
<1>1. CASE UNCHANGED vars
  BY <1>1 DEF vars, session, users, asking, turn, Stations, TypeOK
<1>2. ASSUME NEW t \in Tabs, LockTakesOver(t) PROVE Stations'
  BY <1>2 DEF LockTakesOver, LockGranted, TakeOver, session, Stations, TypeOK
<1>3. ASSUME NEW t \in Tabs, LockRefreshes(t) PROVE Stations'
  BY <1>3 DEF LockRefreshes, LockGranted, PerformRefresh, session, users,
     asking, Stations, TypeOK
<1>4. ASSUME NEW t \in Tabs, ReadLease(t) PROVE Stations'
  BY <1>4 DEF ReadLease, session, users, asking, Stations, TypeOK
<1>5. ASSUME NEW t \in Tabs, WriteLease(t) PROVE Stations'
  BY <1>5 DEF WriteLease, session, users, asking, Stations, TypeOK
<1>6. ASSUME NEW t \in Tabs, VerifyLease(t) PROVE Stations'
  BY <1>6 DEF VerifyLease, PerformRefresh, session, users, asking, Stations,
     TypeOK
<1>7. ASSUME NEW t \in Tabs, AcceptOutcome(t) PROVE Stations'
  BY <1>7 DEF AcceptOutcome, TakeOver, session, Stations, TypeOK
<1>8. ASSUME NEW t \in Tabs, ListenTimeout(t) PROVE Stations'
  BY <1>8 DEF ListenTimeout, session, users, asking, turn, Stations, TypeOK
<1>9. ASSUME NEW t \in Tabs, RefreshAnswered(t) PROVE Stations'
  <2>1. /\ mode' = mode /\ pc' = [pc EXCEPT ![t] = "idle"]
        /\ call' = [call EXCEPT ![t] = NoCall]
        /\ \A u \in Tabs : news'[u] # None => u # t /\ pc[u] # "idle"
    BY <1>9 DEF RefreshAnswered
  <2> QED BY <2>1 DEF NoCall, Stations, TypeOK
<1>10. ASSUME NEW t \in Tabs, ServeRefresh(t) PROVE Stations'
  <2>1. /\ call[t].phase = "sent" /\ call'[t].phase # "none"
        /\ \A u \in Tabs \ {t} : call'[u] = call[u]
    BY <1>10 DEF ServeRefresh, TypeOK
  <2> QED BY <1>10, <2>1 DEF ServeRefresh, turn, Stations, TypeOK
<1>11. ASSUME NEW t \in Tabs, RefreshUnavailable(t) PROVE Stations'
  BY <1>11 DEF RefreshUnavailable, session, users, asking, turn, Stations,
     TypeOK
<1>12. ASSUME NEW t \in Tabs, LogoutAnswered(t) PROVE Stations'
  BY <1>12 DEF LogoutAnswered, Overtakes, asking, turn, Stations, TypeOK
<1>13. ASSUME NEW r \in Requests, RequestServed(r) PROVE Stations'
  BY <1>13 DEF RequestServed, Settle, session, users, turn, Stations, TypeOK
<1>14. ASSUME NEW r \in Requests, RetryRefused(r) PROVE Stations'
  BY <1>14 DEF RetryRefused, Settle, Refused, session, turn, Stations, TypeOK
<1>15. ASSUME NEW r \in Requests, WaitForLeader(r) PROVE Stations'
  BY <1>15 DEF WaitForLeader, Refused, session, users, turn, Stations, TypeOK
<1>16. ASSUME NEW r \in Requests, LeadRefresh(r) PROVE Stations'
  BY <1>16 DEF LeadRefresh, Refused, CoordinateRefresh, session, users,
     Stations, TypeOK
<1>17. ASSUME NEW r \in Requests, CooledDown(r) PROVE Stations'
  BY <1>17 DEF CooledDown, Settle, Refused, session, users, turn, Stations,
     TypeOK
<1>18. CASE LeaseLapses
  BY <1>18 DEF LeaseLapses, session, users, asking, Stations, TypeOK
<1>19. CASE AccessExpires
  BY <1>19 DEF AccessExpires, users, asking, turn, Stations, TypeOK
<1>20. ASSUME NEW r \in Requests, Send(r) PROVE Stations'
  BY <1>20 DEF Send, session, users, turn, Stations, TypeOK
<1>21. ASSUME NEW t \in Tabs, LogoutSent(t) PROVE Stations'
  BY <1>21 DEF LogoutSent, session, asking, turn, Stations, TypeOK
<1>22. ASSUME NEW t \in Tabs, Login(t) PROVE Stations'
  BY <1>22 DEF Login, Overtakes, CoordinateRefresh, asking, Stations, TypeOK
<1>23. ASSUME NEW t \in Tabs, LoginRefused(t) PROVE Stations'
  BY <1>23 DEF LoginRefused, users, asking, turn, Stations, TypeOK
<1>24. ASSUME NEW t \in Tabs, AnswerLost(t) PROVE Stations'
  BY <1>24 DEF AnswerLost, session, users, asking, turn, Stations, TypeOK
<1>25. ASSUME NEW t \in Tabs, TabCloses(t) PROVE Stations'
  <2>1. /\ mode' = mode /\ pc' = [pc EXCEPT ![t] = "idle"]
        /\ call' = [call EXCEPT ![t] = NoCall]
        /\ news' = [news EXCEPT ![t] = None]
    BY <1>25 DEF TabCloses
  <2> QED BY <2>1 DEF NoCall, Stations, TypeOK
<1>26. CASE SessionEnds
  BY <1>26 DEF SessionEnds, users, asking, turn, Stations, TypeOK
<1> QED BY <1>1, <1>2, <1>3, <1>4, <1>5, <1>6, <1>7, <1>8, <1>9, <1>10, <1>11,
       <1>12, <1>13, <1>14, <1>15, <1>16, <1>17, <1>18, <1>19, <1>20, <1>21,
       <1>22, <1>23, <1>24, <1>25, <1>26 DEF Next, TabStep, RequestStep,
       UserStep, MishapStep

LEMMA TurnStep ==
  ASSUME TypeOK, Stations, TurnHeld, [Next]_vars
  PROVE  TurnHeld'
<1>1. CASE UNCHANGED vars
  BY <1>1 DEF vars, session, users, asking, turn, Stations, TurnHeld, TypeOK
<1>2. ASSUME NEW t \in Tabs, LockTakesOver(t) PROVE TurnHeld'
  <2>1. /\ UNCHANGED <<mode, lease, causes>> /\ holder' = holder
        /\ pc' = [pc EXCEPT ![t] = "idle"]
    BY <1>2 DEF LockTakesOver, TakeOver
  <2> QED BY <2>1 DEF TurnHeld, TypeOK
<1>3. ASSUME NEW t \in Tabs, LockRefreshes(t) PROVE TurnHeld'
  <2>1. /\ mode' = mode /\ lease' = lease /\ causes' = causes
        /\ holder = None /\ holder' = t /\ pc' = [pc EXCEPT ![t] = "sending"]
        /\ pc[t] = "queued"
    BY <1>3 DEF LockRefreshes, LockGranted, PerformRefresh
  <2>2. mode = "locks" /\ None \notin Tabs
    BY <2>1, TabsAssumption DEF Stations, TypeOK
  <2> QED BY <2>1, <2>2 DEF TurnHeld, TypeOK
<1>4. ASSUME NEW t \in Tabs, ReadLease(t) PROVE TurnHeld'
  BY <1>4 DEF ReadLease, session, users, asking, Stations, TurnHeld, TypeOK
<1>5. ASSUME NEW t \in Tabs, WriteLease(t) PROVE TurnHeld'
  BY <1>5 DEF WriteLease, session, users, asking, Stations, TurnHeld, TypeOK
<1>6. ASSUME NEW t \in Tabs, VerifyLease(t) PROVE TurnHeld'
  BY <1>6 DEF VerifyLease, PerformRefresh, session, users, asking, Stations,
     TurnHeld, TypeOK
<1>7. ASSUME NEW t \in Tabs, AcceptOutcome(t) PROVE TurnHeld'
  <2>1. /\ UNCHANGED <<mode, lease, causes>> /\ holder' = holder
        /\ pc' = [pc EXCEPT ![t] = "idle"]
    BY <1>7 DEF AcceptOutcome, TakeOver
  <2> QED BY <2>1 DEF TurnHeld, TypeOK
<1>8. ASSUME NEW t \in Tabs, ListenTimeout(t) PROVE TurnHeld'
  BY <1>8 DEF ListenTimeout, session, users, asking, turn, Stations, TurnHeld,
     TypeOK
<1>9. ASSUME NEW t \in Tabs, RefreshAnswered(t) PROVE TurnHeld'
  <2>1. /\ mode' = mode /\ causes' = causes
        /\ pc' = [pc EXCEPT ![t] = "idle"]
        /\ pc[t] = "sending"
    BY <1>9 DEF RefreshAnswered, Stations
  <2>2. \A u \in Tabs \ {t} : holder = u => holder' = u
    BY <1>9 DEF RefreshAnswered
  <2>3. lease' \in {lease, NoLease} /\ (lease.owner # t => lease' = lease)
    BY <1>9 DEF RefreshAnswered
  <2>4. NoLease.owner \notin Tabs
    BY TabsAssumption DEF NoLease
  <2> QED BY <2>1, <2>2, <2>3, <2>4 DEF TurnHeld, TypeOK
<1>10. ASSUME NEW t \in Tabs, ServeRefresh(t) PROVE TurnHeld'
  BY <1>10 DEF ServeRefresh, users, asking, turn, Stations, TurnHeld, TypeOK
<1>11. ASSUME NEW t \in Tabs, RefreshUnavailable(t) PROVE TurnHeld'
  BY <1>11 DEF RefreshUnavailable, session, users, asking, turn, Stations,
     TurnHeld, TypeOK
<1>12. ASSUME NEW t \in Tabs, LogoutAnswered(t) PROVE TurnHeld'
  BY <1>12 DEF LogoutAnswered, Overtakes, asking, turn, Stations, TurnHeld,
     TypeOK
<1>13. ASSUME NEW r \in Requests, RequestServed(r) PROVE TurnHeld'
  BY <1>13 DEF RequestServed, Settle, session, users, turn, Stations,
     TurnHeld, TypeOK
<1>14. ASSUME NEW r \in Requests, RetryRefused(r) PROVE TurnHeld'
  BY <1>14 DEF RetryRefused, Settle, Refused, session, turn, Stations,
     TurnHeld, TypeOK
<1>15. ASSUME NEW r \in Requests, WaitForLeader(r) PROVE TurnHeld'
  BY <1>15 DEF WaitForLeader, Refused, session, users, turn, Stations,
     TurnHeld, TypeOK
<1>16. ASSUME NEW r \in Requests, LeadRefresh(r) PROVE TurnHeld'
  BY <1>16 DEF LeadRefresh, Refused, CoordinateRefresh, session, users,
     Stations, TurnHeld, TypeOK
<1>17. ASSUME NEW r \in Requests, CooledDown(r) PROVE TurnHeld'
  BY <1>17 DEF CooledDown, Settle, Refused, session, users, turn, Stations,
     TurnHeld, TypeOK
<1>18. CASE LeaseLapses
  BY <1>18 DEF LeaseLapses, session, users, asking, Stations, TurnHeld, TypeOK
<1>19. CASE AccessExpires
  BY <1>19 DEF AccessExpires, users, asking, turn, Stations, TurnHeld, TypeOK
<1>20. ASSUME NEW r \in Requests, Send(r) PROVE TurnHeld'
  BY <1>20 DEF Send, session, users, turn, Stations, TurnHeld, TypeOK
<1>21. ASSUME NEW t \in Tabs, LogoutSent(t) PROVE TurnHeld'
  BY <1>21 DEF LogoutSent, session, asking, turn, Stations, TurnHeld, TypeOK
<1>22. ASSUME NEW t \in Tabs, Login(t) PROVE TurnHeld'
  BY <1>22 DEF Login, Overtakes, CoordinateRefresh, asking, Stations,
     TurnHeld, TypeOK
<1>23. ASSUME NEW t \in Tabs, LoginRefused(t) PROVE TurnHeld'
  BY <1>23 DEF LoginRefused, users, asking, turn, Stations, TurnHeld, TypeOK
<1>24. ASSUME NEW t \in Tabs, AnswerLost(t) PROVE TurnHeld'
  BY <1>24 DEF AnswerLost, session, users, asking, turn, Stations, TurnHeld,
     TypeOK
<1>25. ASSUME NEW t \in Tabs, TabCloses(t) PROVE TurnHeld'
  <2>1. /\ mode' = mode /\ pc' = [pc EXCEPT ![t] = "idle"]
        /\ "overlap" \in causes' <=> "overlap" \in causes
    BY <1>25 DEF TabCloses
  <2>2. \A u \in Tabs \ {t} : holder = u => holder' = u
    BY <1>25 DEF TabCloses
  <2>3. lease.owner # t => lease' = lease
    BY <1>25 DEF TabCloses
  <2>4. lease.owner = t => lease'.owner = None
    BY <1>25 DEF TabCloses, TypeOK
  <2>5. None \notin Tabs
    BY TabsAssumption
  <2> QED BY <2>1, <2>2, <2>3, <2>4, <2>5 DEF TurnHeld, TypeOK
<1>26. CASE SessionEnds
  BY <1>26 DEF SessionEnds, users, asking, turn, Stations, TurnHeld, TypeOK
<1> QED BY <1>1, <1>2, <1>3, <1>4, <1>5, <1>6, <1>7, <1>8, <1>9, <1>10, <1>11,
       <1>12, <1>13, <1>14, <1>15, <1>16, <1>17, <1>18, <1>19, <1>20, <1>21,
       <1>22, <1>23, <1>24, <1>25, <1>26 DEF Next, TabStep, RequestStep,
       UserStep, MishapStep

LEMMA TakeOverOrder ==
  ASSUME TypeOK, Order, NEW t \in Tabs, TakeOver(t)
  PROVE  Order'
<1>1. /\ UNCHANGED <<jar, issued, spent, expiredUpTo, call>>
      /\ news' = [news EXCEPT ![t] = None]
      /\ Deliver(t, news[t], jar)
  BY DEF TakeOver, session
<1>2. /\ leaving' = leaving
      /\ \A r \in Requests : req'[r] \in {"leading", "waiting"} =>
                                req'[r] = req[r] /\ via'[r] = via[r]
  BY <1>1, DeliverFacts DEF TypeOK
<1>3. None # "refreshed"
  BY TabsAssumption
<1> QED BY <1>1, <1>2, <1>3 DEF Order, TypeOK

LEMMA TakeOverUndisturbed ==
  ASSUME TypeOK, Undisturbed, NEW t \in Tabs, TakeOver(t)
  PROVE  Undisturbed'
<1>1. UNCHANGED <<jar, spent, causes, call>> /\ Deliver(t, news[t], jar)
  BY DEF TakeOver, session
<1>2. leaving' = leaving
  BY <1>1, DeliverFacts DEF TypeOK
<1> QED BY <1>1, <1>2 DEF Undisturbed

LEMMA OrderStep ==
  ASSUME TypeOK, Stations, Order, [Next]_vars
  PROVE  Order'
<1>1. CASE UNCHANGED vars
  BY <1>1 DEF vars, session, users, asking, turn, Stations, Order, TypeOK
<1>2. ASSUME NEW t \in Tabs, LockTakesOver(t) PROVE Order'
  BY <1>2, TakeOverOrder DEF LockTakesOver
<1>3. ASSUME NEW t \in Tabs, LockRefreshes(t) PROVE Order'
  BY <1>3 DEF LockRefreshes, LockGranted, PerformRefresh, session, users,
     asking, Stations, Order, TypeOK
<1>4. ASSUME NEW t \in Tabs, ReadLease(t) PROVE Order'
  BY <1>4 DEF ReadLease, session, users, asking, Stations, Order, TypeOK
<1>5. ASSUME NEW t \in Tabs, WriteLease(t) PROVE Order'
  BY <1>5 DEF WriteLease, session, users, asking, Stations, Order, TypeOK
<1>6. ASSUME NEW t \in Tabs, VerifyLease(t) PROVE Order'
  <2>1. /\ UNCHANGED <<jar, issued, spent, expiredUpTo, leaving, news, req, via>>
        /\ \/ call' = [call EXCEPT ![t] = [phase |-> "sent", pair |-> jar]]
           \/ call' = call
    BY <1>6 DEF VerifyLease, PerformRefresh, session, users, asking
  <2>2. jar \in Nat /\ issued \in Nat /\ jar <= issued
    BY DEF Order, TypeOK
  <2>3. \A u \in Tabs : \/ call'[u] = call[u]
                        \/ call'[u] = [phase |-> "sent", pair |-> jar]
    BY <2>1 DEF TypeOK
  <2> QED BY <2>1, <2>2, <2>3 DEF Order
<1>7. ASSUME NEW t \in Tabs, AcceptOutcome(t) PROVE Order'
  BY <1>7, TakeOverOrder DEF AcceptOutcome
<1>8. ASSUME NEW t \in Tabs, ListenTimeout(t) PROVE Order'
  BY <1>8 DEF ListenTimeout, session, users, asking, turn, Stations, Order,
     TypeOK
<1>9. ASSUME NEW t \in Tabs, RefreshAnswered(t) PROVE Order'
  <2> DEFINE status == StatusOf(call[t])
  <2>1. /\ Deliver(t, status, JarAfter(call[t]))
        /\ status = "refreshed" => JarAfter(call[t]) \in 1..issued
                                     /\ JarAfter(call[t]) > expiredUpTo
        /\ JarAfter(call[t]) \in 0..issued
    BY <1>9 DEF RefreshAnswered, StatusOf, JarAfter, Order, TypeOK
  <2>2. /\ jar' = JarAfter(call[t])
        /\ UNCHANGED <<issued, spent, expiredUpTo>>
        /\ call' = [call EXCEPT ![t] = NoCall]
        /\ \A u \in Tabs : news'[u] \in {status, None}
    BY <1>9 DEF RefreshAnswered
  <2>3. /\ leaving' = leaving
        /\ \A r \in Requests : req'[r] \in {"leading", "waiting"} =>
                                   req'[r] = req[r] /\ via'[r] = via[r]
    BY <2>1, DeliverFacts, AnswerTypes
  <2>4. None # "refreshed"
    BY TabsAssumption
  <2> HIDE DEF status
  <2> QED BY <2>1, <2>2, <2>3, <2>4 DEF Order, NoCall, TypeOK
<1>10. ASSUME NEW t \in Tabs, ServeRefresh(t) PROVE Order'
  <2>1. /\ UNCHANGED <<jar, expiredUpTo, leaving, news, req, via>>
        /\ call[t].phase = "sent" /\ call[t].pair \in 0..issued
        /\ issued \in Nat /\ expiredUpTo \in Nat /\ jar \in Nat
    BY <1>10 DEF ServeRefresh, users, asking, turn, Order, TypeOK
  <2>2. CASE call' = [call EXCEPT ![t] = [phase |-> "refused", pair |-> 0]]
             /\ UNCHANGED <<spent, issued>>
    BY <2>1, <2>2 DEF Order, TypeOK
  <2>3. CASE /\ call' = [call EXCEPT ![t] = [phase |-> "rotated", pair |-> issued + 1]]
             /\ spent' = spent \cup {call[t].pair} /\ issued' = issued + 1
             /\ call[t].pair # 0
    <3>1. /\ jar <= issued' /\ expiredUpTo <= issued' /\ spent' \subseteq 1..issued'
          /\ issued + 1 \in 1..issued' /\ issued + 1 > expiredUpTo
      <4>1. jar <= issued /\ expiredUpTo <= issued /\ spent \subseteq 1..issued
        BY DEF Order
      <4>2. call[t].pair \in 1..issued + 1
        BY <2>1, <2>3
      <4>3. /\ issued' = issued + 1 /\ spent' = spent \cup {call[t].pair}
            /\ issued \in Nat /\ expiredUpTo \in Nat /\ jar \in Nat
        BY <2>1, <2>3
      <4>4. spent' \subseteq 1..issued'
        <5>1. spent \cup {call[t].pair} \subseteq 1..issued + 1
          BY <4>1, <4>2, <4>3, OneMore
        <5> QED BY <4>3, <5>1
      <4> QED BY <4>1, <4>3, <4>4
    <3>2. \A u \in Tabs : call'[u] = IF u = t THEN [phase |-> "rotated", pair |-> issued + 1]
                                           ELSE call[u]
      BY <2>3 DEF TypeOK
    <3>3. \A u \in Tabs : leaving[u] # None => leaving[u] \in Nat
      BY DEF TypeOK
    <3>4. \A u \in Tabs : call[u].pair \in Nat
      BY DEF TypeOK
    <3> QED BY <2>1, <2>3, <3>1, <3>2, <3>3, <3>4 DEF Order
  <2> QED BY <1>10, <2>2, <2>3 DEF ServeRefresh
<1>11. ASSUME NEW t \in Tabs, RefreshUnavailable(t) PROVE Order'
  BY <1>11 DEF RefreshUnavailable, session, users, asking, turn, Stations,
     Order, TypeOK
<1>12. ASSUME NEW t \in Tabs, LogoutAnswered(t) PROVE Order'
  BY <1>12 DEF LogoutAnswered, Overtakes, asking, turn, Stations, Order,
     TypeOK
<1>13. ASSUME NEW r \in Requests, RequestServed(r) PROVE Order'
  BY <1>13 DEF RequestServed, Settle, session, users, turn, Stations, Order,
     TypeOK
<1>14. ASSUME NEW r \in Requests, RetryRefused(r) PROVE Order'
  BY <1>14 DEF RetryRefused, Settle, Refused, session, turn, Stations, Order,
     TypeOK
<1>15. ASSUME NEW r \in Requests, WaitForLeader(r) PROVE Order'
  BY <1>15 DEF WaitForLeader, Refused, session, users, turn, Stations, Order,
     TypeOK
<1>16. ASSUME NEW r \in Requests, LeadRefresh(r) PROVE Order'
  BY <1>16 DEF LeadRefresh, Refused, CoordinateRefresh, session, users,
     Stations, Order, TypeOK
<1>17. ASSUME NEW r \in Requests, CooledDown(r) PROVE Order'
  BY <1>17 DEF CooledDown, Settle, Refused, session, users, turn, Stations,
     Order, TypeOK
<1>18. CASE LeaseLapses
  BY <1>18 DEF LeaseLapses, session, users, asking, Stations, Order, TypeOK
<1>19. CASE AccessExpires
  <2>1. /\ expiredUpTo' = issued
        /\ UNCHANGED <<jar, issued, spent, leaving, news, req, via, call>>
        /\ \A t \in Tabs : news[t] = None /\ call[t].phase = "none"
    BY <1>19 DEF AccessExpires, users, asking, turn, Stations, TypeOK
  <2>2. None # "refreshed"
    BY TabsAssumption
  <2> QED BY <2>1, <2>2 DEF Order, TypeOK
<1>20. ASSUME NEW r \in Requests, Send(r) PROVE Order'
  BY <1>20 DEF Send, session, users, turn, Stations, Order, TypeOK
<1>21. ASSUME NEW t \in Tabs, LogoutSent(t) PROVE Order'
  BY <1>21 DEF LogoutSent, session, asking, turn, Stations, Order, TypeOK
<1>22. ASSUME NEW t \in Tabs, Login(t) PROVE Order'
  BY <1>22 DEF Login, Overtakes, CoordinateRefresh, asking, Stations, Order,
     TypeOK
<1>23. ASSUME NEW t \in Tabs, LoginRefused(t) PROVE Order'
  BY <1>23 DEF LoginRefused, users, asking, turn, Stations, Order, TypeOK
<1>24. ASSUME NEW t \in Tabs, AnswerLost(t) PROVE Order'
  BY <1>24 DEF AnswerLost, session, users, asking, turn, Stations, Order,
     TypeOK
<1>25. ASSUME NEW t \in Tabs, TabCloses(t) PROVE Order'
  <2>1. /\ UNCHANGED <<jar, issued, expiredUpTo, leaving>>
        /\ call' = [call EXCEPT ![t] = NoCall] /\ news' = [news EXCEPT ![t] = None]
        /\ \A r \in Requests : req'[r] \in {"leading", "waiting"} =>
                                   req'[r] = req[r] /\ via'[r] = via[r]
    BY <1>25 DEF TabCloses, TypeOK
  <2>2. spent' \subseteq 1..issued
    BY <1>25 DEF TabCloses, Order, TypeOK
  <2>3. None # "refreshed"
    BY TabsAssumption
  <2> QED BY <2>1, <2>2, <2>3 DEF Order, NoCall, TypeOK
<1>26. CASE SessionEnds
  BY <1>26 DEF SessionEnds, users, asking, turn, Stations, Order, TypeOK
<1> QED BY <1>1, <1>2, <1>3, <1>4, <1>5, <1>6, <1>7, <1>8, <1>9, <1>10, <1>11,
       <1>12, <1>13, <1>14, <1>15, <1>16, <1>17, <1>18, <1>19, <1>20, <1>21,
       <1>22, <1>23, <1>24, <1>25, <1>26 DEF Next, TabStep, RequestStep,
       UserStep, MishapStep

LEMMA UndisturbedStep ==
  ASSUME TypeOK, Stations, TurnHeld, Order, Undisturbed, [Next]_vars
  PROVE  Undisturbed'
<1>1. CASE UNCHANGED vars
  BY <1>1 DEF vars, session, users, asking, turn, Stations, Order,
     Undisturbed, TypeOK
<1>2. ASSUME NEW t \in Tabs, LockTakesOver(t) PROVE Undisturbed'
  BY <1>2, TakeOverUndisturbed DEF LockTakesOver
<1>3. ASSUME NEW t \in Tabs, LockRefreshes(t) PROVE Undisturbed'
  BY <1>3 DEF LockRefreshes, LockGranted, PerformRefresh, session, users,
     asking, Stations, Order, Undisturbed, TypeOK
<1>4. ASSUME NEW t \in Tabs, ReadLease(t) PROVE Undisturbed'
  BY <1>4 DEF ReadLease, session, users, asking, Stations, Order, Undisturbed,
     TypeOK
<1>5. ASSUME NEW t \in Tabs, WriteLease(t) PROVE Undisturbed'
  BY <1>5 DEF WriteLease, session, users, asking, Stations, Order,
     Undisturbed, TypeOK
<1>6. ASSUME NEW t \in Tabs, VerifyLease(t) PROVE Undisturbed'
  <2>1. /\ UNCHANGED <<jar, spent, leaving, causes>> /\ pc[t] = "verifying"
        /\ \/ call' = [call EXCEPT ![t] = [phase |-> "sent", pair |-> jar]]
           \/ call' = call
    BY <1>6 DEF VerifyLease, PerformRefresh, session, users
  <2>2. call[t].phase = "none"
    BY <2>1 DEF Stations, TypeOK
  <2>3. \A u \in Tabs : \/ call'[u] = call[u]
                        \/ u = t /\ call'[u] = [phase |-> "sent", pair |-> jar]
    BY <2>1 DEF TypeOK
  <2> QED BY <2>1, <2>2, <2>3 DEF Undisturbed
<1>7. ASSUME NEW t \in Tabs, AcceptOutcome(t) PROVE Undisturbed'
  BY <1>7, TakeOverUndisturbed DEF AcceptOutcome
<1>8. ASSUME NEW t \in Tabs, ListenTimeout(t) PROVE Undisturbed'
  BY <1>8 DEF ListenTimeout, session, users, asking, turn, Stations, Order,
     Undisturbed, TypeOK
<1>9. ASSUME NEW t \in Tabs, RefreshAnswered(t) PROVE Undisturbed'
  <2>1. /\ jar' = JarAfter(call[t]) /\ UNCHANGED <<spent, causes>>
        /\ call' = [call EXCEPT ![t] = NoCall] /\ call[t].phase # "none"
    BY <1>9 DEF RefreshAnswered
  <2>2. leaving' = leaving
    BY <1>9, DeliverFacts, AnswerTypes DEF RefreshAnswered
  <2>3. ASSUME causes = {}
        PROVE  /\ \A u \in Tabs : call'[u].phase = "none"
               /\ JarAfter(call[t]) # 0 /\ JarAfter(call[t]) \notin spent
    <3>1. \A u \in Tabs : call[u].phase # "none" => u = t
      BY <2>1, <2>3, OneSending
    <3>2. call[t].phase = "rotated" => call[t].pair # 0 /\ call[t].pair \notin spent
      BY <2>3 DEF Order, Undisturbed
    <3>3. call[t].phase # "rotated" => jar \notin spent
      BY <2>3, <3>1 DEF Undisturbed
    <3>4. jar # 0 /\ call[t].phase # "refused"
      BY <2>3 DEF Undisturbed
    <3>5. \A u \in Tabs : call'[u].phase = "none"
      BY <2>1, <3>1 DEF NoCall, TypeOK
    <3> QED BY <3>2, <3>3, <3>4, <3>5 DEF JarAfter
  <2> QED BY <2>1, <2>2, <2>3 DEF Undisturbed
<1>10. ASSUME NEW t \in Tabs, ServeRefresh(t) PROVE Undisturbed'
  <2>1. /\ UNCHANGED <<jar, leaving, causes>> /\ call[t].phase = "sent"
    BY <1>10 DEF ServeRefresh, users
  <2>2. ASSUME causes = {}
        PROVE  call[t].pair # 0 /\ call[t].pair \notin spent
               /\ \A u \in Tabs \ {t} : call[u].phase = "none"
    <3>1. \A u \in Tabs : call[u].phase # "none" => u = t
      BY <2>1, <2>2, OneSending
    <3>2. jar \notin spent /\ call[t].pair = jar /\ jar # 0
      BY <2>1, <2>2, <3>1 DEF Undisturbed
    <3> QED BY <3>1, <3>2
  <2>3. ASSUME causes = {}
        PROVE  /\ call' = [call EXCEPT ![t] = [phase |-> "rotated", pair |-> issued + 1]]
               /\ spent' = spent \cup {call[t].pair}
    BY <1>10, <2>2, <2>3 DEF ServeRefresh
  <2>4. call[t].pair <= issued /\ spent \subseteq 1..issued /\ issued \in Nat
        /\ call[t].pair \in Nat
    BY <2>1 DEF Order, TypeOK
  <2>5. issued + 1 \notin spent \cup {call[t].pair}
    BY <2>4
  <2>6. causes = {} => /\ call'[t] = [phase |-> "rotated", pair |-> issued + 1]
                      /\ \A u \in Tabs \ {t} : call'[u].phase = "none"
    BY <2>2, <2>3 DEF TypeOK
  <2> QED BY <2>1, <2>3, <2>5, <2>6 DEF Undisturbed
<1>11. ASSUME NEW t \in Tabs, RefreshUnavailable(t) PROVE Undisturbed'
  BY <1>11 DEF RefreshUnavailable, session, users, asking, turn, Stations,
     Order, Undisturbed, TypeOK
<1>12. ASSUME NEW t \in Tabs, LogoutAnswered(t) PROVE Undisturbed'
  BY <1>12 DEF LogoutAnswered, Overtakes, asking, turn, Stations, Order,
     Undisturbed, TypeOK
<1>13. ASSUME NEW r \in Requests, RequestServed(r) PROVE Undisturbed'
  BY <1>13 DEF RequestServed, Settle, session, users, turn, Stations, Order,
     Undisturbed, TypeOK
<1>14. ASSUME NEW r \in Requests, RetryRefused(r) PROVE Undisturbed'
  BY <1>14 DEF RetryRefused, Settle, Refused, session, turn, Stations, Order,
     Undisturbed, TypeOK
<1>15. ASSUME NEW r \in Requests, WaitForLeader(r) PROVE Undisturbed'
  BY <1>15 DEF WaitForLeader, Refused, session, users, turn, Stations, Order,
     Undisturbed, TypeOK
<1>16. ASSUME NEW r \in Requests, LeadRefresh(r) PROVE Undisturbed'
  BY <1>16 DEF LeadRefresh, Refused, CoordinateRefresh, session, users,
     Stations, Order, Undisturbed, TypeOK
<1>17. ASSUME NEW r \in Requests, CooledDown(r) PROVE Undisturbed'
  BY <1>17 DEF CooledDown, Settle, Refused, session, users, turn, Stations,
     Order, Undisturbed, TypeOK
<1>18. CASE LeaseLapses
  BY <1>18 DEF LeaseLapses, session, users, asking, Stations, Order,
     Undisturbed, TypeOK
<1>19. CASE AccessExpires
  BY <1>19 DEF AccessExpires, users, asking, turn, Stations, Order,
     Undisturbed, TypeOK
<1>20. ASSUME NEW r \in Requests, Send(r) PROVE Undisturbed'
  BY <1>20 DEF Send, session, users, turn, Stations, Order, Undisturbed,
     TypeOK
<1>21. ASSUME NEW t \in Tabs, LogoutSent(t) PROVE Undisturbed'
  BY <1>21 DEF LogoutSent, session, asking, turn, Stations, Order,
     Undisturbed, TypeOK
<1>22. ASSUME NEW t \in Tabs, Login(t) PROVE Undisturbed'
  <2>1. /\ jar' = issued + 1 /\ UNCHANGED <<call, leaving, spent>>
        /\ causes' = {} => /\ RefreshOut = {}
                           /\ \A u \in Tabs : leaving[u] = None
    BY <1>22 DEF Login, Overtakes, asking
  <2>2. issued + 1 # 0 /\ issued + 1 \notin spent
    BY DEF Order, TypeOK
  <2>3. causes' = {} => \A u \in Tabs : call[u].phase = "none"
    BY <2>1 DEF RefreshOut
  <2> QED BY <2>1, <2>2, <2>3 DEF Undisturbed
<1>23. ASSUME NEW t \in Tabs, LoginRefused(t) PROVE Undisturbed'
  BY <1>23 DEF LoginRefused, users, asking, turn, Stations, Order,
     Undisturbed, TypeOK
<1>24. ASSUME NEW t \in Tabs, AnswerLost(t) PROVE Undisturbed'
  BY <1>24 DEF AnswerLost, session, users, asking, turn, Stations, Order,
     Undisturbed, TypeOK
<1>25. ASSUME NEW t \in Tabs, TabCloses(t) PROVE Undisturbed'
  <2>1. /\ UNCHANGED <<jar, leaving>> /\ call' = [call EXCEPT ![t] = NoCall]
        /\ causes' = {} => /\ causes = {} /\ spent' = spent
                           /\ call[t].phase # "rotated"
    BY <1>25 DEF TabCloses
  <2> QED BY <2>1 DEF Undisturbed, NoCall, TypeOK
<1>26. CASE SessionEnds
  BY <1>26 DEF SessionEnds, users, asking, turn, Stations, Order, Undisturbed,
     TypeOK
<1> QED BY <1>1, <1>2, <1>3, <1>4, <1>5, <1>6, <1>7, <1>8, <1>9, <1>10, <1>11,
       <1>12, <1>13, <1>14, <1>15, <1>16, <1>17, <1>18, <1>19, <1>20, <1>21,
       <1>22, <1>23, <1>24, <1>25, <1>26 DEF Next, TabStep, RequestStep,
       UserStep, MishapStep

(* The step of RetryCarriesNewPair.                                         *)
NewPair == \A r \in Requests :
             req[r] \in {"leading", "waiting"} /\ req'[r] = "sent" /\ via[r] # 0
               => via'[r] # via[r]

LEMMA RetryStep ==
  ASSUME IInv, [Next]_vars
  PROVE  NewPair
<1> USE DEF IInv
<1>1. CASE UNCHANGED vars
  BY <1>1 DEF vars, session, users, asking, turn, NewPair, TypeOK
<1>2. ASSUME NEW t \in Tabs, LockTakesOver(t) PROVE NewPair
  <2>1. TakeOver(t) /\ Deliver(t, news[t], jar) /\ jar \in Nat
    BY <1>2 DEF LockTakesOver, TakeOver, TypeOK
  <2>2. ASSUME NEW r \in Requests, req[r] \in {"leading", "waiting"}, req'[r] = "sent"
        PROVE  news[t] = "refreshed" /\ via'[r] = jar /\ via[r] <= expiredUpTo
    BY <2>1, <2>2, DeliverFacts DEF Order
  <2>3. news[t] = "refreshed" => jar = 0 \/ jar > expiredUpTo
    BY DEF Order
  <2> QED BY <2>1, <2>2, <2>3 DEF NewPair, TypeOK
<1>3. ASSUME NEW t \in Tabs, LockRefreshes(t) PROVE NewPair
  BY <1>3 DEF LockRefreshes, LockGranted, PerformRefresh, session, users,
     asking, NewPair, TypeOK
<1>4. ASSUME NEW t \in Tabs, ReadLease(t) PROVE NewPair
  BY <1>4 DEF ReadLease, session, users, asking, NewPair, TypeOK
<1>5. ASSUME NEW t \in Tabs, WriteLease(t) PROVE NewPair
  BY <1>5 DEF WriteLease, session, users, asking, NewPair, TypeOK
<1>6. ASSUME NEW t \in Tabs, VerifyLease(t) PROVE NewPair
  BY <1>6 DEF VerifyLease, PerformRefresh, session, users, asking, NewPair,
     TypeOK
<1>7. ASSUME NEW t \in Tabs, AcceptOutcome(t) PROVE NewPair
  <2>1. TakeOver(t) /\ Deliver(t, news[t], jar) /\ jar \in Nat
    BY <1>7 DEF AcceptOutcome, TakeOver, TypeOK
  <2>2. ASSUME NEW r \in Requests, req[r] \in {"leading", "waiting"}, req'[r] = "sent"
        PROVE  news[t] = "refreshed" /\ via'[r] = jar /\ via[r] <= expiredUpTo
    BY <2>1, <2>2, DeliverFacts DEF Order
  <2>3. news[t] = "refreshed" => jar = 0 \/ jar > expiredUpTo
    BY DEF Order
  <2> QED BY <2>1, <2>2, <2>3 DEF NewPair, TypeOK
<1>8. ASSUME NEW t \in Tabs, ListenTimeout(t) PROVE NewPair
  BY <1>8 DEF ListenTimeout, session, users, asking, turn, NewPair, TypeOK
<1>9. ASSUME NEW t \in Tabs, RefreshAnswered(t) PROVE NewPair
  <2>1. /\ Deliver(t, StatusOf(call[t]), JarAfter(call[t])) /\ JarAfter(call[t]) \in Nat
        /\ StatusOf(call[t]) = "refreshed" => JarAfter(call[t]) > expiredUpTo
    BY <1>9, AnswerTypes DEF RefreshAnswered, StatusOf, JarAfter, Order, TypeOK
  <2>2. ASSUME NEW r \in Requests, req[r] \in {"leading", "waiting"}, req'[r] = "sent"
        PROVE  /\ StatusOf(call[t]) = "refreshed" /\ via'[r] = JarAfter(call[t])
               /\ via[r] <= expiredUpTo
    BY <2>1, <2>2, DeliverFacts DEF Order
  <2> QED BY <2>1, <2>2 DEF NewPair, TypeOK
<1>10. ASSUME NEW t \in Tabs, ServeRefresh(t) PROVE NewPair
  BY <1>10 DEF ServeRefresh, users, asking, turn, NewPair, TypeOK
<1>11. ASSUME NEW t \in Tabs, RefreshUnavailable(t) PROVE NewPair
  BY <1>11 DEF RefreshUnavailable, session, users, asking, turn, NewPair,
     TypeOK
<1>12. ASSUME NEW t \in Tabs, LogoutAnswered(t) PROVE NewPair
  BY <1>12 DEF LogoutAnswered, Overtakes, asking, turn, NewPair, TypeOK
<1>13. ASSUME NEW r \in Requests, RequestServed(r) PROVE NewPair
  BY <1>13 DEF RequestServed, Settle, session, users, turn, NewPair, TypeOK
<1>14. ASSUME NEW r \in Requests, RetryRefused(r) PROVE NewPair
  BY <1>14 DEF RetryRefused, Settle, Refused, session, turn, NewPair, TypeOK
<1>15. ASSUME NEW r \in Requests, WaitForLeader(r) PROVE NewPair
  BY <1>15 DEF WaitForLeader, Refused, session, users, turn, NewPair, TypeOK
<1>16. ASSUME NEW r \in Requests, LeadRefresh(r) PROVE NewPair
  BY <1>16 DEF LeadRefresh, Refused, CoordinateRefresh, session, users,
     NewPair, TypeOK
<1>17. ASSUME NEW r \in Requests, CooledDown(r) PROVE NewPair
  BY <1>17 DEF CooledDown, Settle, Refused, session, users, turn, NewPair,
     TypeOK
<1>18. CASE LeaseLapses
  BY <1>18 DEF LeaseLapses, session, users, asking, NewPair, TypeOK
<1>19. CASE AccessExpires
  BY <1>19 DEF AccessExpires, users, asking, turn, NewPair, TypeOK
<1>20. ASSUME NEW r \in Requests, Send(r) PROVE NewPair
  BY <1>20 DEF Send, session, users, turn, NewPair, TypeOK
<1>21. ASSUME NEW t \in Tabs, LogoutSent(t) PROVE NewPair
  BY <1>21 DEF LogoutSent, session, asking, turn, NewPair, TypeOK
<1>22. ASSUME NEW t \in Tabs, Login(t) PROVE NewPair
  BY <1>22 DEF Login, Overtakes, CoordinateRefresh, asking, NewPair, TypeOK
<1>23. ASSUME NEW t \in Tabs, LoginRefused(t) PROVE NewPair
  BY <1>23 DEF LoginRefused, users, asking, turn, NewPair, TypeOK
<1>24. ASSUME NEW t \in Tabs, AnswerLost(t) PROVE NewPair
  BY <1>24 DEF AnswerLost, session, users, asking, turn, NewPair, TypeOK
<1>25. ASSUME NEW t \in Tabs, TabCloses(t) PROVE NewPair
  BY <1>25 DEF TabCloses, NewPair, TypeOK
<1>26. CASE SessionEnds
  BY <1>26 DEF SessionEnds, users, asking, turn, NewPair, TypeOK
<1> QED BY <1>1, <1>2, <1>3, <1>4, <1>5, <1>6, <1>7, <1>8, <1>9, <1>10, <1>11,
       <1>12, <1>13, <1>14, <1>15, <1>16, <1>17, <1>18, <1>19, <1>20, <1>21,
       <1>22, <1>23, <1>24, <1>25, <1>26 DEF Next, TabStep, RequestStep,
       UserStep, MishapStep

-----------------------------------------------------------------------------
(* The theorems.                                                            *)

LEMMA InitInv == Init => IInv
<1> SUFFICES ASSUME Init PROVE IInv
  OBVIOUS
<1>1. None \notin Nat /\ 1 \in Nat /\ << >> \in Seq(Tabs)
  BY TabsAssumption, EmptySeq
<1>2. TypeOK
  BY <1>1 DEF Init, TypeOK, NoCall, NoLease
<1>3. Stations /\ TurnHeld
  BY DEF Init, Stations, TurnHeld, NoCall, NoLease
<1>4. Order
  BY TabsAssumption DEF Init, Order, NoCall
<1>5. Undisturbed
  BY DEF Init, Undisturbed, NoCall
<1> QED BY <1>2, <1>3, <1>4, <1>5 DEF IInv

LEMMA StepInv == IInv /\ [Next]_vars => IInv'
BY TypeStep, StationsStep, TurnStep, OrderStep, UndisturbedStep DEF IInv

(* The strengthening is an invariant: it holds at the start and every action  *)
(* of Next keeps each of its parts.                                         *)
THEOREM Invariance == Spec => []IInv
BY InitInv, StepInv, PTL DEF Spec

(* The session's state keeps its types: cookies, calls, locks and leases    *)
(* are what the code can hold, for any number of tabs and requests.         *)
THEOREM TypeCorrect == Spec => []TypeOK
<1>1. IInv => TypeOK
  BY DEF IInv
<1> QED BY <1>1, Invariance, PTL

(* The refreshes of all tabs are serialized, by the web lock and by the     *)
(* lease, for any number of tabs (refreshAccessToken).                      *)
THEOREM RefreshesSerialized == Spec => []OneRefreshAtATime
<1>1. IInv => OneRefreshAtATime
  <2> SUFFICES ASSUME IInv, "overlap" \notin causes
               PROVE  Cardinality(RefreshOut) <= 1
    BY DEF OneRefreshAtATime
  <2>1. \A t, u \in RefreshOut : t = u
    BY OneSending DEF RefreshOut, IInv
  <2>2. CASE RefreshOut = {}
    BY <2>2, FS_EmptySet
  <2>3. CASE RefreshOut # {}
    <3>1. PICK t : t \in RefreshOut
      BY <2>3
    <3>2. RefreshOut = {t}
      BY <2>1, <3>1
    <3> QED BY <3>2, FS_Singleton
  <2> QED BY <2>2, <2>3
<1> QED BY <1>1, Invariance, PTL

(* The cookies outlive every refresh, in any order of any number of tabs    *)
(* and whatever fails temporarily, until a cause of CookiesKept's premise.  *)
THEOREM SessionSurvives == Spec => []CookiesKept
<1>1. IInv => CookiesKept
  BY DEF IInv, Undisturbed, CookiesKept
<1> QED BY <1>1, Invariance, PTL

(* A refused request is repeated only with a pair it was not refused with.  *)
THEOREM RetriesMakeProgress == Spec => RetryCarriesNewPair
<1>1. IInv /\ [Next]_vars => [NewPair]_vars
  BY RetryStep
<1>2. Spec => [][NewPair]_vars
  BY <1>1, Invariance, PTL DEF Spec
<1> QED BY <1>2 DEF RetryCarriesNewPair, NewPair
=============================================================================
