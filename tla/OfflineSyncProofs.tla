-------------------------- MODULE OfflineSyncProofs --------------------------
(* Proofs about OfflineSync for any number of tabs, writes and records.     *)
EXTENDS OfflineSync, TLAPS

-----------------------------------------------------------------------------
(* The strengthening.                                                       *)

LogKinds == {"in", "then", "out"}

HoldsDraft(t) == \/ pass[t].at = "put"
                 \/ pass[t].at = "done" /\ pass[t].job.kind = "draft"

(* What the local state of a pass holds at each of its stations.            *)
Shape ==
  \A t \in Tabs :
    /\ ~Syncing(t) => pass[t].at = "next" /\ pass[t].todo = {}
    /\ pass[t].at # "next" => pass[t].job \in Jobs
    /\ HoldsDraft(t) => pass[t].held \in Drafts
    /\ pass[t].at = "count" => pass[t].held \in Entries /\ pass[t].job.kind = "queue"
    /\ pass[t].at # "next" /\ pass[t].job.kind \in LogKinds =>
         pass[t].stage = "logs"
    /\ \A j \in pass[t].todo : j.kind \in LogKinds => pass[t].stage = "logs"

(* Without an overlap one tab syncs at a time.                              *)
OnePass ==
  "overlap" \notin causes =>
    \A t, u \in Tabs : Syncing(t) /\ Syncing(u) => t = u

(* The request a pass works on is the one in the queue until it is deleted, *)
(* which happens after the server has carried it out.                       *)
Owns(t) ==
  /\ \A j \in pass[t].todo : j.kind = "queue" => queue.w = j.what
  /\ pass[t].at \in {"sent", "failed", "done", "count"} /\ pass[t].job.kind = "queue" =>
       queue.w = pass[t].job.what /\ pass[t].job \notin pass[t].todo
  /\ pass[t].at = "done" /\ pass[t].job.kind = "queue" /\ pass[t].job.what \in Writes =>
       applied[pass[t].job.what] > 0
  /\ pass[t].at = "count" => pass[t].held.w = queue.w

OwnsQueue == "overlap" \notin causes => \A t \in Tabs : Owns(t)

Safe(w) == applied[w] > 0 \/ queue.w = w

(* No copy of the draft, wherever it is on its way, has a stray edit.       *)
Accounted ==
  "overlap" \notin causes =>
    /\ \A w \in taken : Safe(w)
    /\ \A w \in draft.edits : Safe(w)
    /\ saving # None => \A w \in saving.edits : Safe(w)
    /\ \A t \in Tabs : HoldsDraft(t) => \A w \in pass[t].held.edits : Safe(w)

Unharmed == causes \cap {"overlap", "lost", "closed"} = {}
DoneWith(kind, x) ==
  \E t \in Tabs : pass[t].at = "done" /\ pass[t].job.kind = kind /\ pass[t].job.what = x

(* What the server has carried out is off the device, or about to be.       *)
WriteOnce(w) ==
  /\ applied[w] > 0 \/ queue.w = w => w \in asked
  /\ applied[w] <= 1
  /\ applied[w] = 1 /\ queue.w = w => DoneWith("queue", w)

PhotoOnce(f) ==
  /\ uploaded[f] > 0 \/ photo[f] # "none" => f \in asked
  /\ uploaded[f] <= 1
  /\ uploaded[f] = 1 /\ photo[f] = "unsynced" => DoneWith("photo", f)

(* The photos a pass still has to send, or is sending, are not marked.      *)
PhotoJobs(t) ==
  /\ \A j \in pass[t].todo : j.kind = "photo" => photo[j.what] = "unsynced"
  /\ pass[t].at # "next" /\ pass[t].job.kind = "photo" =>
       photo[pass[t].job.what] = "unsynced" /\ pass[t].job \notin pass[t].todo

WritesOnce == Unharmed => \A w \in Writes : WriteOnce(w)
PhotosOnce == Unharmed => /\ \A f \in Photos : PhotoOnce(f)
                          /\ \A t \in Tabs : PhotoJobs(t)

(* A labour entry under its temporary id is not on the server, or the call  *)
(* that took it there is still being dealt with.                            *)
ClockedInBy(t, l) ==
  /\ pass[t].at # "next" /\ pass[t].job.what = l
  /\ \/ pass[t].job.kind = "in" /\ pass[t].at = "done"
     \/ pass[t].job.kind = "then" /\ pass[t].at \in {"sent", "done"}

State(stop) == IF stop THEN "stopped" ELSE "running"

Clocking(t) ==
  /\ Syncing(t) => online
  /\ \A j \in pass[t].todo : j.kind = "in" => temp[j.what] = State(j.stop)
  /\ \A j \in pass[t].todo : j.kind # "then"
  /\ pass[t].at # "next" /\ pass[t].job.kind \in {"in", "then"} =>
       /\ temp[pass[t].job.what] = State(pass[t].job.stop)
       /\ \A j \in pass[t].todo : j.kind = "in" => j.what # pass[t].job.what
  /\ pass[t].at = "done" /\ pass[t].job.kind = "in" => open = pass[t].job.what
  /\ pass[t].at = "sent" /\ pass[t].job.kind = "then" => open = pass[t].job.what
  /\ pass[t].at # "next" /\ pass[t].job.kind = "then" => pass[t].at \in {"sent", "done"}

LabourAt(l) ==
  /\ made[l] > 0 \/ temp[l] # "none" => l \in asked
  /\ made[l] <= 1
  /\ made[l] = 1 /\ temp[l] # "none" => \E t \in Tabs : ClockedInBy(t, l)

Labour ==
  causes = {} => /\ queue.w \notin Copies
                 /\ \A l \in Logs : LabourAt(l)
                 /\ \A t \in Tabs : Clocking(t)

IInv ==
  /\ TypeOK /\ Shape /\ OnePass
  /\ OwnsQueue /\ Accounted /\ WritesOnce /\ PhotosOnce /\ Labour

-----------------------------------------------------------------------------
(* Lemmas about the operators.                                              *)

Ats    == {"next", "sent", "done", "failed", "mark", "put", "count"}
Held   == Drafts \cup Entries \cup {None}
Passes == [stage : Stages, todo : SUBSET Jobs, job : Jobs \cup {NoJob},
           at : Ats, held : Held]

LEMMA PassUpdates ==
  ASSUME NEW p \in Passes
  PROVE  /\ \A a \in Ats : [p EXCEPT !.at = a] \in Passes
         /\ \A a \in Ats, h \in Held : [p EXCEPT !.at = a, !.held = h] \in Passes
         /\ \A j \in Jobs, a \in Ats : [p EXCEPT !.job = j, !.at = a] \in Passes
         /\ \A todo \in SUBSET Jobs : [p EXCEPT !.todo = todo] \in Passes
         /\ \A s \in Stages, todo \in SUBSET Jobs :
              [p EXCEPT !.stage = s, !.todo = todo] \in Passes
         /\ [p EXCEPT !.job = NoJob, !.at = "next", !.held = None] \in Passes
BY DEF Passes, Held, Ats

LEMMA GoType ==
  ASSUME TypeOK, NEW t \in Tabs, NEW p \in Passes, Go(t, p)
  PROVE  /\ pass' \in [Tabs -> Passes] /\ pass'[t] = p
         /\ \A u \in Tabs \ {t} : pass'[u] = pass[u]
BY DEF TypeOK, Go, Passes, Ats, Held

LEMMA PassType ==
  ASSUME TypeOK, NEW t \in Tabs
  PROVE  pass[t] \in Passes /\ IdlePass \in Passes /\ Done(t) \in Passes
<1>1. pass[t] \in Passes /\ IdlePass \in Passes
  BY DEF TypeOK, Passes, Ats, Held, IdlePass, Stages
<1> QED BY <1>1, PassUpdates DEF Done

(* What syncAll reads for a stage are jobs of the kinds of that stage.      *)
LEMMA TodoFacts ==
  ASSUME TypeOK, NEW stage \in Stages
  PROVE  /\ Todo(stage) \subseteq Jobs
         /\ \A j \in Todo(stage) :
              /\ j.kind \in LogKinds => stage = "logs" /\ j.kind # "then"
              /\ j.kind = "queue" => queue.w = j.what
              /\ j.kind = "photo" => photo[j.what] = "unsynced"
              /\ j.kind = "in" => temp[j.what] = IF j.stop THEN "stopped" ELSE "running"
         /\ stage = "idle" => Todo(stage) = {}
<1>1. CASE stage = "logs"
  BY <1>1 DEF Todo, Jobs, LogKinds
<1>2. CASE stage = "photos"
  BY <1>2 DEF Todo, Jobs, LogKinds
<1>3. CASE stage = "queue"
  <2>1. CASE Unsent(queue)
    <3>1. Todo(stage) = [kind : {"queue"}, what : {queue.w}, stop : {FALSE}]
      BY <1>3, <2>1 DEF Todo
    <3>2. queue.w \in Writes \cup Copies
      BY <2>1 DEF Unsent, TypeOK, Entries
    <3>3. ASSUME NEW j \in Todo(stage)
          PROVE  j \in Jobs /\ j.kind = "queue" /\ queue.w = j.what
      <4>1. j \in [kind : {"queue"}, what : {queue.w}, stop : {FALSE}]
        BY <3>1
      <4>2. j \in [kind : {"queue"}, what : Writes \cup Copies, stop : {FALSE}]
        BY <3>2, <4>1
      <4> QED BY <4>1, <4>2 DEF Jobs
    <3> QED BY <1>3, <3>3 DEF LogKinds
  <2>2. CASE ~Unsent(queue)
    <3>1. Todo(stage) = [kind : {"queue"}, what : {}, stop : {FALSE}]
      BY <1>3, <2>2 DEF Todo
    <3>2. \A j : j \notin Todo(stage)
      BY <3>1
    <3> QED BY <1>3, <3>2
  <2> QED BY <2>1, <2>2
<1>4. CASE stage = "drafts"
  BY <1>4 DEF Todo, Jobs, LogKinds
<1>5. CASE stage = "idle"
  BY <1>5 DEF Todo
<1> QED BY <1>1, <1>2, <1>3, <1>4, <1>5 DEF Stages

LEMMA AfterType == ASSUME NEW s \in Stages PROVE After(s) \in Stages
BY DEF Stages, After

LEMMA InterceptType ==
  ASSUME TypeOK, NEW job \in Jobs, Intercept(job)
  PROVE  queue' \in Entries
<1>1. queue \in Entries
  BY DEF TypeOK
<1>2. ASSUME NEW w \in Writes \cup Copies PROVE Queued(w) \in Entries
  BY <1>1, OfflineAssumption DEF Queued, Entries
<1>3. CASE job.kind = "in"
  BY <1>2, <1>3 DEF Intercept, Jobs, Copies
<1>4. CASE job.kind \in {"then", "out"}
  BY <1>2, <1>4 DEF Intercept, Jobs, Copies
<1>5. CASE job.kind = "queue"
  BY <1>2, <1>5 DEF Intercept, Jobs
<1>6. CASE job.kind \notin LogKinds \cup {"queue"}
  BY <1>1, <1>6 DEF Intercept, LogKinds
<1> QED BY <1>3, <1>4, <1>5, <1>6 DEF LogKinds

LEMMA QueuedType ==
  ASSUME TypeOK, NEW w \in Writes \cup Copies PROVE Queued(w) \in Entries
BY OfflineAssumption DEF TypeOK, Queued, Entries

LEMMA CachedType ==
  ASSUME TypeOK PROVE [edits |-> OnServer, synced |-> TRUE] \in Drafts
BY DEF Drafts, OnServer

LEMMA ShownTimerType ==
  ASSUME TypeOK PROVE ShownTimer \subseteq [what : Logs, temp : BOOLEAN] \cup {None}
<1> DEFINE temps  == {l \in Logs : temp[l] = "running"}
           copies == {l \in Logs : copy[l] = "running"}
<1>1. CASE online
  <2>1. ShownTimer = {IF open = None THEN None ELSE [what |-> open, temp |-> FALSE]}
    BY <1>1 DEF ShownTimer
  <2>2. CASE open = None
    BY <2>1, <2>2
  <2>3. CASE open \in Logs
    BY <2>1, <2>3
  <2> QED BY <2>2, <2>3 DEF TypeOK
<1>2. CASE ~online /\ temps # {}
  BY <1>2 DEF ShownTimer
<1>3. CASE ~online /\ temps = {} /\ copies # {}
  BY <1>3 DEF ShownTimer
<1>4. CASE ~online /\ temps = {} /\ copies = {}
  BY <1>4 DEF ShownTimer
<1> QED BY <1>1, <1>2, <1>3, <1>4

LEMMA CarryOutType ==
  ASSUME TypeOK, NEW job \in Jobs, CarryOut(job)
  PROVE  /\ applied' \in [Writes -> Nat] /\ open' \in Logs \cup {None}
         /\ made' \in [Logs -> Nat] /\ stopped' \subseteq Logs
         /\ uploaded' \in [Photos -> Nat]
<1>1. ASSUME NEW l \in Logs, ClockInAt(l) \/ ClockOutAt(l)
      PROVE  /\ applied' \in [Writes -> Nat] /\ open' \in Logs \cup {None}
             /\ made' \in [Logs -> Nat] /\ stopped' \subseteq Logs
             /\ uploaded' \in [Photos -> Nat]
  BY <1>1 DEF ClockInAt, ClockOutAt, TypeOK
<1>2. CASE job.kind \in LogKinds
  BY <1>1, <1>2 DEF CarryOut, Jobs, LogKinds
<1>3. CASE job.kind = "queue" /\ job.what \in Copies
  <2>1. job.what[2] \in Logs
    BY <1>3 DEF Copies
  <2> QED BY <1>1, <1>3, <2>1, OfflineAssumption DEF CarryOut, Copies
<1>4. CASE job.kind = "queue" /\ job.what \in Writes
  BY <1>4, OfflineAssumption DEF CarryOut, Copies, TypeOK
<1>5. CASE job.kind = "photo"
  BY <1>5 DEF CarryOut, TypeOK, Jobs
<1>6. CASE job.kind = "draft"
  BY <1>6 DEF CarryOut, server, TypeOK
<1> QED BY <1>2, <1>3, <1>4, <1>5, <1>6 DEF Jobs, LogKinds

(* What SendJob, NextStage, ClockedIn and ServeCall leave of the pass.        *)
LEMMA CallFacts ==
  ASSUME TypeOK, NEW t \in Tabs, NEW p \in Passes, NEW job \in Jobs, Call(t, p, job)
  PROVE  /\ pass'[t].stage = p.stage /\ pass'[t].todo = p.todo
         /\ pass'[t].job = job
         /\ pass'[t].at = IF online THEN "sent" ELSE "failed"
         /\ \A u \in Tabs \ {t} : pass'[u] = pass[u]
         /\ IF online THEN queue' = queue ELSE Intercept(job)
<1> DEFINE at == IF online THEN "sent" ELSE "failed"
           q == [p EXCEPT !.job = job, !.at = at]
<1>1. at \in Ats
  BY DEF Ats
<1>2. q \in Passes
  BY <1>1, PassUpdates
<1>3. q.stage = p.stage /\ q.todo = p.todo /\ q.job = job /\ q.at = at
  BY DEF Passes
<1>4. Go(t, q) /\ IF online THEN queue' = queue ELSE Intercept(job)
  BY DEF Call
<1> HIDE DEF q
<1> QED BY <1>2, <1>3, <1>4, GoType

LEMMA SendFacts ==
  ASSUME TypeOK, NEW t \in Tabs, NEW job \in pass[t].todo, SendJob(t, job)
  PROVE  /\ pass'[t].stage = pass[t].stage /\ pass'[t].todo = pass[t].todo \ {job}
         /\ pass'[t].job = job /\ job \in Jobs
         /\ pass'[t].at = IF online THEN "sent" ELSE "failed"
         /\ \A u \in Tabs \ {t} : pass'[u] = pass[u]
         /\ IF online THEN queue' = queue ELSE Intercept(job)
<1> DEFINE p == [pass[t] EXCEPT !.todo = @ \ {job}]
<1>1. pass[t] \in Passes /\ job \in Jobs
  BY PassType DEF Passes
<1>2. p \in Passes /\ p.stage = pass[t].stage /\ p.todo = pass[t].todo \ {job}
  BY <1>1 DEF Passes
<1>3. Call(t, p, job)
  BY DEF SendJob
<1> HIDE DEF p
<1> QED BY <1>1, <1>2, <1>3, CallFacts

LEMMA StageFacts ==
  ASSUME TypeOK, NEW t \in Tabs, NextStage(t)
  PROVE  /\ pass'[t].stage = After(pass[t].stage)
         /\ pass'[t].todo = Todo(After(pass[t].stage))
         /\ pass'[t].job = pass[t].job /\ pass'[t].at = pass[t].at
         /\ \A u \in Tabs \ {t} : pass'[u] = pass[u]
<1>1. pass[t] \in Passes
  BY PassType
<1>2. After(pass[t].stage) \in Stages /\ Todo(After(pass[t].stage)) \in SUBSET Jobs
  BY <1>1, AfterType, TodoFacts DEF Passes
<1> DEFINE p == [pass[t] EXCEPT !.stage = After(@), !.todo = Todo(After(pass[t].stage))]
<1>3. /\ p \in Passes
      /\ p.stage = After(pass[t].stage) /\ p.todo = Todo(After(pass[t].stage))
      /\ p.job = pass[t].job /\ p.at = pass[t].at
  BY <1>1, <1>2 DEF Passes
<1>4. Go(t, p)
  BY DEF NextStage
<1> HIDE DEF p
<1> QED BY <1>3, <1>4, GoType

LEMMA ClockedInFacts ==
  ASSUME TypeOK, Shape, NEW t \in Tabs, ClockedIn(t)
  PROVE  /\ pass'[t].stage = pass[t].stage /\ pass'[t].todo = pass[t].todo
         /\ pass'[t].job \in Jobs
         /\ pass'[t].job.kind = "then" /\ pass'[t].job.what = pass[t].job.what
         /\ pass'[t].job.stop = pass[t].job.stop
         /\ pass'[t].at = IF online THEN "sent" ELSE "failed"
         /\ \A u \in Tabs \ {t} : pass'[u] = pass[u]
         /\ IF online THEN queue' = queue ELSE Intercept(pass'[t].job)
<1> DEFINE job == [pass[t].job EXCEPT !.kind = "then"]
<1>1. /\ job \in Jobs /\ job.kind = "then" /\ job.what = pass[t].job.what
      /\ job.stop = pass[t].job.stop
  BY DEF ClockedIn, Shape, Jobs
<1>2. Call(t, pass[t], job)
  BY DEF ClockedIn
<1> HIDE DEF job
<1> QED BY <1>1, <1>2, PassType, CallFacts DEF job

LEMMA ServeFacts ==
  ASSUME TypeOK, NEW t \in Tabs, ServeCall(t)
  PROVE  /\ pass'[t].stage = pass[t].stage /\ pass'[t].todo = pass[t].todo
         /\ pass'[t].job = pass[t].job /\ pass[t].at = "sent"
         /\ \A u \in Tabs \ {t} : pass'[u] = pass[u]
         /\ \/ pass'[t].at = "failed" /\ UNCHANGED server /\ Refuses(pass[t].job)
            \/ pass'[t].at = "done" /\ CarryOut(pass[t].job)
         /\ pass'[t].at = "done" /\ pass[t].job.kind = "draft" =>
              pass'[t].held = [edits |-> OnServer, synced |-> TRUE]
<1>1. pass[t] \in Passes
  BY PassType
<1>2. CASE Refuses(pass[t].job)
  <2>1. [pass[t] EXCEPT !.at = "failed"] \in Passes
    BY <1>1, PassUpdates DEF Ats
  <2> QED BY <1>1, <1>2, <2>1, GoType DEF ServeCall, Passes
<1>3. CASE ~Refuses(pass[t].job)
  <2> DEFINE held == IF pass[t].job.kind = "draft"
                     THEN [edits |-> OnServer, synced |-> TRUE] ELSE None
             p == [pass[t] EXCEPT !.at = "done", !.held = held]
  <2>1. held \in Held
    BY CachedType DEF Held
  <2>2. /\ p \in Passes
        /\ p.stage = pass[t].stage /\ p.todo = pass[t].todo /\ p.job = pass[t].job
        /\ p.at = "done" /\ p.held = held
    BY <1>1, <2>1 DEF Passes, Ats
  <2>3. Go(t, p) /\ CarryOut(pass[t].job) /\ pass[t].at = "sent"
    BY <1>3 DEF ServeCall
  <2> HIDE DEF p
  <2> QED BY <2>2, <2>3, GoType
<1> QED BY <1>2, <1>3

LEMMA CarryOutFacts ==
  ASSUME TypeOK, NEW job \in Jobs, CarryOut(job)
  PROVE  /\ \A w \in Writes : applied'[w] =
              IF job.kind = "queue" /\ job.what = w THEN applied[w] + 1 ELSE applied[w]
         /\ \A f \in Photos : uploaded'[f] =
              IF job.kind = "photo" /\ job.what = f THEN uploaded[f] + 1 ELSE uploaded[f]
         /\ job.kind = "in" =>
              /\ open = None /\ open' = job.what
              /\ \A l \in Logs : made'[l] = IF l = job.what THEN made[l] + 1 ELSE made[l]
         /\ job.kind \in {"then", "out"} =>
              open = job.what /\ open' = None /\ made' = made
         /\ job.kind = "queue" /\ job.what \notin Copies => open' = open /\ made' = made
         /\ job.kind \in {"photo", "draft"} => open' = open /\ made' = made
<1>1. CASE job.kind = "in"
  BY <1>1 DEF CarryOut, ClockInAt, Jobs, TypeOK
<1>2. CASE job.kind \in {"then", "out"}
  BY <1>2 DEF CarryOut, ClockOutAt, Jobs, TypeOK
<1>3. CASE job.kind = "queue" /\ job.what \in Copies
  <2>1. job.what \notin Writes /\ job.what[2] \in Logs
    BY <1>3, OfflineAssumption DEF Copies
  <2>2. UNCHANGED <<applied, uploaded>>
    BY <1>3, <2>1 DEF CarryOut, ClockInAt, ClockOutAt
  <2> QED BY <1>3, <2>1, <2>2
<1>4. CASE job.kind = "queue" /\ job.what \in Writes
  BY <1>4, OfflineAssumption DEF CarryOut, Copies, TypeOK
<1>5. CASE job.kind = "photo"
  BY <1>5 DEF CarryOut, Jobs, TypeOK
<1>6. CASE job.kind = "draft"
  BY <1>6 DEF CarryOut, server, TypeOK
<1> QED BY <1>1, <1>2, <1>3, <1>4, <1>5, <1>6 DEF Jobs

(* Nothing is put in the place of a request that is in the queue.           *)
LEMMA InterceptKeeps ==
  ASSUME TypeOK, NEW job \in Jobs, Intercept(job)
  PROVE  /\ queue.w # None => queue' = queue
         /\ queue.w = None /\ job.kind # "queue" => queue'.w \in Copies \cup {None}
<1>1. queue.w # None => \A w : Queued(w) = queue
  BY DEF Queued
<1>2. queue.w = None => \A w : Queued(w).w = w
  BY DEF Queued
<1>3. CASE job.kind = "in"
  <2>1. job.what \in Logs
    BY <1>3 DEF Jobs
  <2>2. <<"in", job.what>> \in Copies /\ queue' = Queued(<<"in", job.what>>)
    BY <1>3, <2>1 DEF Intercept, Copies
  <2> QED BY <1>1, <1>2, <2>2
<1>4. CASE job.kind \in {"then", "out"}
  <2>1. job.what \in Logs
    BY <1>4 DEF Jobs
  <2>2. <<"out", job.what>> \in Copies /\ queue' = Queued(<<"out", job.what>>)
    BY <1>4, <2>1 DEF Intercept, Copies
  <2> QED BY <1>1, <1>2, <2>2
<1>5. CASE job.kind = "queue"
  BY <1>1, <1>5 DEF Intercept
<1>6. CASE job.kind \notin LogKinds \cup {"queue"}
  BY <1>6 DEF Intercept, LogKinds
<1> QED BY <1>3, <1>4, <1>5, <1>6 DEF LogKinds

LEMMA SameJob ==
  ASSUME NEW j \in Jobs, NEW k \in Jobs, j.kind = k.kind, j.what = k.what,
         j.kind \in {"queue", "photo"}
  PROVE  j = k
<1>1. CASE j.kind = "queue"
  <2>1. ASSUME NEW i \in Jobs, i.kind = "queue"
        PROVE  i = [kind |-> "queue", what |-> i.what, stop |-> FALSE]
    <3>1. i \in [kind : {"queue"}, what : Writes \cup Copies, stop : {FALSE}]
      BY <2>1 DEF Jobs
    <3> QED BY <3>1
  <2> QED BY <1>1, <2>1
<1>2. CASE j.kind = "photo"
  <2>1. ASSUME NEW i \in Jobs, i.kind = "photo"
        PROVE  i = [kind |-> "photo", what |-> i.what, stop |-> FALSE]
    <3>1. i \in [kind : {"photo"}, what : Photos, stop : {FALSE}]
      BY <2>1 DEF Jobs
    <3> QED BY <3>1
  <2> QED BY <1>2, <2>1
<1> QED BY <1>1, <1>2

(* A tab that works on a job is syncing, and without an overlap no other is. *)
LEMMA Others ==
  ASSUME TypeOK, Shape, OnePass, "overlap" \notin causes, NEW t \in Tabs,
         Syncing(t) \/ pass[t].at # "next" \/ pass[t].todo # {}
  PROVE  /\ Syncing(t)
         /\ \A u \in Tabs \ {t} : ~Syncing(u) /\ pass[u].at = "next" /\ pass[u].todo = {}
BY DEF Shape, OnePass

LEMMA QueueJob ==
  ASSUME NEW j \in Jobs, j.kind = "queue"
  PROVE  j.what \in Writes \cup Copies /\ j.what # None
<1>1. j.what \in Writes \cup Copies
  BY DEF Jobs
<1> QED BY <1>1, OfflineAssumption DEF Copies

-----------------------------------------------------------------------------
(* Each part of the invariant is kept.                                      *)

LEMMA TypeStep ==
  ASSUME TypeOK, Shape, [Next]_vars
  PROVE  TypeOK'
<1>1. CASE UNCHANGED vars
  BY <1>1 DEF vars, device, server, TypeOK
<1>2. ASSUME NEW w \in Writes, WriteOffline(w)
      PROVE  TypeOK'
  <2>1. queue' \in Entries /\ asked' \subseteq Writes \cup Logs \cup Photos
    BY <1>2, QueuedType DEF WriteOffline, TypeOK
  <2>2. taken' \subseteq asked'
    BY <1>2 DEF WriteOffline, TypeOK
  <2> QED BY <1>2, <2>1, <2>2 DEF WriteOffline, server, TypeOK
<1>3. ASSUME NEW w \in Writes, EditOffline(w)
      PROVE  TypeOK'
  <2>1. queue' \in Entries /\ asked' \subseteq Writes \cup Logs \cup Photos
    BY <1>3, QueuedType DEF EditOffline, TypeOK
  <2>2. taken' \subseteq asked'
    BY <1>3 DEF EditOffline, TypeOK
  <2>3. saving' \in Drafts \cup {None}
    <3>1. [edits |-> draft.edits \cup ({w} \cap Patches), synced |-> FALSE] \in Drafts
      BY DEF TypeOK, Drafts
    <3>2. saving \in Drafts \cup {None}
      BY DEF TypeOK
    <3> QED BY <1>3, <3>1, <3>2 DEF EditOffline
  <2> QED BY <1>3, <2>1, <2>2, <2>3 DEF EditOffline, server, TypeOK
<1>4. CASE StoreDraft
  BY <1>4 DEF StoreDraft, server, TypeOK
<1>5. CASE ViewDiagnosis
  <2>1. draft' \in Drafts
    BY <1>5, CachedType DEF ViewDiagnosis
  <2> QED BY <1>5, <2>1 DEF ViewDiagnosis, server, TypeOK
<1>6. ASSUME NEW l \in Logs, ClockIn(l)
      PROVE  TypeOK'
  BY <1>6 DEF ClockIn, server, TypeOK
<1>7. CASE ClockOutTemp
  BY <1>7 DEF ClockOutTemp, server, TypeOK
<1>8. CASE ClockOutOffline
  BY <1>8 DEF ClockOutOffline, server, TypeOK
<1>9. CASE ClockOutOnline
  BY <1>9 DEF ClockOutOnline, TypeOK
<1>10. CASE OpenPage
  BY <1>10, ShownTimerType DEF OpenPage, server, TypeOK
<1>11. ASSUME NEW f \in Photos, TakePhoto(f)
      PROVE  TypeOK'
  BY <1>11 DEF TakePhoto, server, TypeOK
<1>12. ASSUME NEW t \in Tabs, StartSync(t)
      PROVE  TypeOK'
  <2>1. [IdlePass EXCEPT !.stage = "logs", !.todo = Todo("logs")] \in Passes
    BY PassType, PassUpdates, TodoFacts DEF Stages
  <2>2. pass' \in [Tabs -> Passes]
    BY <1>12, <2>1, GoType DEF StartSync
  <2> QED BY <1>12, <2>2 DEF StartSync, device, server, TypeOK, Passes, Ats, Held
<1>13. ASSUME NEW t \in Tabs, NextStage(t)
      PROVE  TypeOK'
  <2>1. [pass[t] EXCEPT !.stage = After(@), !.todo = Todo(After(pass[t].stage))] \in Passes
    <3>1. pass[t] \in Passes /\ After(pass[t].stage) \in Stages
      BY PassType, AfterType DEF Passes
    <3> QED BY <3>1, PassUpdates, TodoFacts
  <2>2. pass' \in [Tabs -> Passes]
    BY <1>13, <2>1, GoType DEF NextStage
  <2> QED BY <1>13, <2>2 DEF NextStage, device, server, TypeOK, Passes, Ats, Held
<1>14. ASSUME NEW t \in Tabs, NEW job \in pass[t].todo, SendJob(t, job)
      PROVE  TypeOK'
  <2>1. \A a \in {"sent", "failed"} : [[pass[t] EXCEPT !.todo = @ \ {job}] EXCEPT !.job = job, !.at = a] \in Passes
    <3>1. pass[t] \in Passes /\ job \in Jobs
      BY PassType DEF Passes
    <3>2. [pass[t] EXCEPT !.todo = @ \ {job}] \in Passes
      BY <3>1, PassUpdates DEF Passes
    <3> QED BY <3>1, <3>2, PassUpdates DEF Ats
  <2>2. pass' \in [Tabs -> Passes]
    BY <1>14, <2>1, GoType DEF SendJob, Call
  <2>3. queue' \in Entries
    BY <1>14, InterceptType DEF SendJob, Call, TypeOK
  <2> QED BY <1>14, <2>2, <2>3 DEF SendJob, server, TypeOK, Passes, Ats, Held
<1>15. ASSUME NEW t \in Tabs, ClockedIn(t)
      PROVE  TypeOK'
  <2> DEFINE job == [pass[t].job EXCEPT !.kind = "then"]
  <2>0. job \in Jobs
    BY <1>15 DEF ClockedIn, Shape, Jobs
  <2>1. \A a \in {"sent", "failed"} : [pass[t] EXCEPT !.job = job, !.at = a] \in Passes
    BY <2>0, PassType, PassUpdates DEF Ats
  <2>2. pass' \in [Tabs -> Passes]
    BY <1>15, <2>1, GoType DEF ClockedIn, Call
  <2>3. queue' \in Entries
    BY <1>15, InterceptType, <2>0 DEF ClockedIn, Call, TypeOK
  <2> QED BY <1>15, <2>2, <2>3 DEF ClockedIn, server, TypeOK, Passes, Ats, Held
<1>16. ASSUME NEW t \in Tabs, LogSent(t)
      PROVE  TypeOK'
  <2>1. pass' \in [Tabs -> Passes]
    BY <1>16, PassType, GoType DEF LogSent
  <2>2. /\ temp' \in [Logs -> {"none", "running", "stopped"}]
        /\ copy' \in [Logs -> {"none", "running", "stopping", "stopped"}]
    BY <1>16 DEF LogSent, TypeOK
  <2> QED BY <1>16, <2>1, <2>2 DEF LogSent, server, TypeOK, Passes, Ats, Held
<1>17. ASSUME NEW t \in Tabs, PhotoSent(t)
      PROVE  TypeOK'
  <2>1. pass' \in [Tabs -> Passes]
    BY <1>17, PassType, GoType DEF PhotoSent
  <2> QED BY <1>17, <2>1 DEF PhotoSent, server, TypeOK, Passes, Ats, Held
<1>18. ASSUME NEW t \in Tabs, DeleteQueued(t)
      PROVE  TypeOK'
  <2>1. [pass[t] EXCEPT !.at = "mark"] \in Passes /\ Done(t) \in Passes
    BY PassType, PassUpdates DEF Ats
  <2>2. pass' \in [Tabs -> Passes]
    BY <1>18, <2>1, GoType DEF DeleteQueued
  <2>3. queue' \in Entries
    BY <1>18, OfflineAssumption DEF DeleteQueued, NoEntry, Entries
  <2> QED BY <1>18, <2>2, <2>3 DEF DeleteQueued, server, TypeOK, Passes, Ats, Held
<1>19. ASSUME NEW t \in Tabs, ReadMark(t)
      PROVE  TypeOK'
  <2>1. [pass[t] EXCEPT !.at = "put", !.held = draft] \in Passes
    BY PassType, PassUpdates DEF Ats, Held, TypeOK
  <2>2. pass' \in [Tabs -> Passes]
    BY <1>19, <2>1, GoType DEF ReadMark
  <2> QED BY <1>19, <2>2 DEF ReadMark, device, server, TypeOK, Passes, Ats, Held
<1>20. ASSUME NEW t \in Tabs, PutDraft(t)
      PROVE  TypeOK'
  <2>1. pass' \in [Tabs -> Passes]
    BY <1>20, PassType, GoType DEF PutDraft
  <2>2. draft' \in Drafts
    BY <1>20 DEF PutDraft, Shape, HoldsDraft, Drafts
  <2> QED BY <1>20, <2>1, <2>2 DEF PutDraft, server, TypeOK, Passes, Ats, Held
<1>21. ASSUME NEW t \in Tabs, GiveUp(t)
      PROVE  TypeOK'
  <2>1. [pass[t] EXCEPT !.at = "count", !.held = queue] \in Passes /\ Done(t) \in Passes
    BY PassType, PassUpdates DEF Ats, Held, TypeOK
  <2>2. pass' \in [Tabs -> Passes]
    BY <1>21, <2>1, GoType DEF GiveUp
  <2> QED BY <1>21, <2>2 DEF GiveUp, device, server, TypeOK, Passes, Ats, Held
<1>22. ASSUME NEW t \in Tabs, CountRetry(t)
      PROVE  TypeOK'
  <2>1. pass' \in [Tabs -> Passes]
    BY <1>22, PassType, GoType DEF CountRetry
  <2>2. queue' \in Entries
    BY <1>22, OfflineAssumption DEF CountRetry, Shape, Entries
  <2> QED BY <1>22, <2>1, <2>2 DEF CountRetry, server, TypeOK, Passes, Ats, Held
<1>23. ASSUME NEW t \in Tabs, ServeCall(t)
      PROVE  TypeOK'
  <2>1. pass[t].at = "sent" /\ pass[t].job \in Jobs
    BY <1>23 DEF ServeCall, Shape
  <2>2. /\ [pass[t] EXCEPT !.at = "failed"] \in Passes
        /\ \A h \in Held : [pass[t] EXCEPT !.at = "done", !.held = h] \in Passes
    BY PassType, PassUpdates DEF Ats
  <2>3. [edits |-> OnServer, synced |-> TRUE] \in Held /\ None \in Held
    BY CachedType DEF Held
  <2>4. pass' \in [Tabs -> Passes]
    BY <1>23, <2>2, <2>3, GoType DEF ServeCall
  <2>5. /\ applied' \in [Writes -> Nat] /\ open' \in Logs \cup {None}
        /\ made' \in [Logs -> Nat] /\ stopped' \subseteq Logs
        /\ uploaded' \in [Photos -> Nat]
    <3>1. CASE UNCHANGED server
      BY <3>1 DEF server, TypeOK
    <3>2. CASE CarryOut(pass[t].job)
      BY <2>1, <3>2, CarryOutType
    <3> QED BY <1>23, <3>1, <3>2 DEF ServeCall
  <2> QED BY <1>23, <2>4, <2>5 DEF ServeCall, device, TypeOK, Passes, Ats, Held
<1>24. CASE GoOnline
  BY <1>24 DEF GoOnline, device, server, TypeOK
<1>25. CASE GoOffline
  BY <1>25 DEF GoOffline, device, server, TypeOK
<1>26. ASSUME NEW t \in Tabs, CallFails(t)
      PROVE  TypeOK'
  <2>1. [pass[t] EXCEPT !.at = "failed"] \in Passes
    BY PassType, PassUpdates DEF Ats
  <2>2. pass' \in [Tabs -> Passes]
    BY <1>26, <2>1, GoType DEF CallFails
  <2> QED BY <1>26, <2>2 DEF CallFails, device, server, TypeOK, Passes, Ats, Held
<1>27. ASSUME NEW t \in Tabs, AnswerLost(t)
      PROVE  TypeOK'
  <2>1. [pass[t] EXCEPT !.at = "failed", !.held = None] \in Passes
    BY PassType, PassUpdates DEF Ats, Held
  <2>2. pass' \in [Tabs -> Passes]
    BY <1>27, <2>1, GoType DEF AnswerLost
  <2> QED BY <1>27, <2>2 DEF AnswerLost, device, server, TypeOK, Passes, Ats, Held
<1>28. ASSUME NEW t \in Tabs, TabCloses(t)
      PROVE  TypeOK'
  <2>1. pass' \in [Tabs -> Passes]
    BY <1>28, PassType, GoType DEF TabCloses
  <2> QED BY <1>28, <2>1, ShownTimerType DEF TabCloses, server, TypeOK, Passes, Ats, Held
<1> QED BY <1>1, <1>2, <1>3, <1>4, <1>5, <1>6, <1>7, <1>8, <1>9, <1>10, <1>11,
       <1>12, <1>13, <1>14, <1>15, <1>16, <1>17, <1>18, <1>19, <1>20, <1>21,
       <1>22, <1>23, <1>24, <1>25, <1>26, <1>27, <1>28 DEF Next, PassStep,
       UserStep, MishapStep

LEMMA ShapeStep ==
  ASSUME TypeOK, Shape, [Next]_vars
  PROVE  Shape'
<1>1. CASE UNCHANGED vars
  BY <1>1 DEF vars, device, server, Shape, HoldsDraft, Syncing, TypeOK
<1>2. ASSUME NEW w \in Writes, WriteOffline(w)
      PROVE  Shape'
  BY <1>2 DEF WriteOffline, Queued, Accepts, server, Shape, HoldsDraft,
     Syncing, TypeOK
<1>3. ASSUME NEW w \in Writes, EditOffline(w)
      PROVE  Shape'
  BY <1>3 DEF EditOffline, Queued, Accepts, server, Shape, HoldsDraft,
     Syncing, TypeOK
<1>4. CASE StoreDraft
  BY <1>4 DEF StoreDraft, server, Shape, HoldsDraft, Syncing, TypeOK
<1>5. CASE ViewDiagnosis
  BY <1>5 DEF ViewDiagnosis, OnServer, server, Shape, HoldsDraft, Syncing,
     TypeOK
<1>6. ASSUME NEW l \in Logs, ClockIn(l)
      PROVE  Shape'
  BY <1>6 DEF ClockIn, server, Shape, HoldsDraft, Syncing, TypeOK
<1>7. CASE ClockOutTemp
  BY <1>7 DEF ClockOutTemp, server, Shape, HoldsDraft, Syncing, TypeOK
<1>8. CASE ClockOutOffline
  <2>1. UNCHANGED pass
    BY <1>8 DEF ClockOutOffline
  <2> QED BY <2>1 DEF Shape, HoldsDraft, Syncing
<1>9. CASE ClockOutOnline
  BY <1>9 DEF ClockOutOnline, Shape, HoldsDraft, Syncing, TypeOK
<1>10. CASE OpenPage
  BY <1>10 DEF OpenPage, server, Shape, HoldsDraft, Syncing, TypeOK
<1>11. ASSUME NEW f \in Photos, TakePhoto(f)
      PROVE  Shape'
  BY <1>11 DEF TakePhoto, server, Shape, HoldsDraft, Syncing, TypeOK
<1>12. ASSUME NEW t \in Tabs, StartSync(t)
      PROVE  Shape'
  BY <1>12 DEF StartSync, Go, IdlePass, device, server, Shape, HoldsDraft,
     Syncing, TypeOK
<1>13. ASSUME NEW t \in Tabs, NextStage(t)
      PROVE  Shape'
  <2>1. pass[t].at = "next" /\ pass[t].stage \in Stages
    BY <1>13 DEF NextStage, TypeOK
  <2>2. After(pass[t].stage) \in Stages
    BY <2>1, AfterType
  <2> QED BY <1>13, <2>1, <2>2, StageFacts, TodoFacts DEF Shape, HoldsDraft, Syncing
<1>14. ASSUME NEW t \in Tabs, NEW job \in pass[t].todo, SendJob(t, job)
      PROVE  Shape'
  <2>1. pass[t].todo # {}
    OBVIOUS
  <2> QED BY <1>14, <2>1, SendFacts DEF Shape, HoldsDraft, Syncing
<1>15. ASSUME NEW t \in Tabs, ClockedIn(t)
      PROVE  Shape'
  <2>1. pass[t].at = "done" /\ pass[t].job.kind = "in"
    BY <1>15 DEF ClockedIn
  <2> QED BY <1>15, <2>1, ClockedInFacts DEF Shape, HoldsDraft, Syncing, LogKinds
<1>16. ASSUME NEW t \in Tabs, LogSent(t)
      PROVE  Shape'
  BY <1>16 DEF LogSent, Go, Done, server, Shape, HoldsDraft, Syncing, TypeOK
<1>17. ASSUME NEW t \in Tabs, PhotoSent(t)
      PROVE  Shape'
  BY <1>17 DEF PhotoSent, Go, Done, server, Shape, HoldsDraft, Syncing, TypeOK
<1>18. ASSUME NEW t \in Tabs, DeleteQueued(t)
      PROVE  Shape'
  BY <1>18 DEF DeleteQueued, Go, Done, server, Shape, HoldsDraft, Syncing,
     TypeOK
<1>19. ASSUME NEW t \in Tabs, ReadMark(t)
      PROVE  Shape'
  BY <1>19 DEF ReadMark, Go, device, server, Shape, HoldsDraft, Syncing,
     TypeOK
<1>20. ASSUME NEW t \in Tabs, PutDraft(t)
      PROVE  Shape'
  BY <1>20 DEF PutDraft, Go, Done, server, Shape, HoldsDraft, Syncing, TypeOK
<1>21. ASSUME NEW t \in Tabs, GiveUp(t)
      PROVE  Shape'
  BY <1>21 DEF GiveUp, Go, Done, device, server, Shape, HoldsDraft, Syncing,
     TypeOK
<1>22. ASSUME NEW t \in Tabs, CountRetry(t)
      PROVE  Shape'
  BY <1>22 DEF CountRetry, Go, Done, server, Shape, HoldsDraft, Syncing,
     TypeOK
<1>23. ASSUME NEW t \in Tabs, ServeCall(t)
      PROVE  Shape'
  <2>1. [edits |-> OnServer, synced |-> TRUE] \in Drafts
    BY CachedType
  <2>2. /\ pass'[t].stage = pass[t].stage /\ pass'[t].todo = pass[t].todo
        /\ pass'[t].job = pass[t].job /\ pass[t].at = "sent"
        /\ pass'[t].at \in {"failed", "done"}
        /\ pass'[t].at = "done" /\ pass[t].job.kind = "draft" => pass'[t].held \in Drafts
        /\ \A u \in Tabs \ {t} : pass'[u] = pass[u]
    BY <1>23, <2>1, ServeFacts
  <2> QED BY <2>2 DEF Shape, HoldsDraft, Syncing
<1>24. CASE GoOnline
  BY <1>24 DEF GoOnline, device, server, Shape, HoldsDraft, Syncing, TypeOK
<1>25. CASE GoOffline
  BY <1>25 DEF GoOffline, device, server, Shape, HoldsDraft, Syncing, TypeOK
<1>26. ASSUME NEW t \in Tabs, CallFails(t)
      PROVE  Shape'
  BY <1>26 DEF CallFails, Go, device, server, Shape, HoldsDraft, Syncing,
     TypeOK
<1>27. ASSUME NEW t \in Tabs, AnswerLost(t)
      PROVE  Shape'
  BY <1>27 DEF AnswerLost, Go, device, server, Shape, HoldsDraft, Syncing,
     TypeOK
<1>28. ASSUME NEW t \in Tabs, TabCloses(t)
      PROVE  Shape'
  BY <1>28 DEF TabCloses, Go, IdlePass, server, Shape, HoldsDraft, Syncing,
     TypeOK
<1> QED BY <1>1, <1>2, <1>3, <1>4, <1>5, <1>6, <1>7, <1>8, <1>9, <1>10, <1>11,
       <1>12, <1>13, <1>14, <1>15, <1>16, <1>17, <1>18, <1>19, <1>20, <1>21,
       <1>22, <1>23, <1>24, <1>25, <1>26, <1>27, <1>28 DEF Next, PassStep,
       UserStep, MishapStep

LEMMA OnePassStep ==
  ASSUME TypeOK, Shape, OnePass, [Next]_vars
  PROVE  OnePass'
<1>1. CASE UNCHANGED vars
  BY <1>1 DEF vars, device, server, OnePass, Syncing, TypeOK
<1>2. ASSUME NEW w \in Writes, WriteOffline(w)
      PROVE  OnePass'
  BY <1>2 DEF WriteOffline, Queued, Accepts, server, OnePass, Syncing, TypeOK
<1>3. ASSUME NEW w \in Writes, EditOffline(w)
      PROVE  OnePass'
  BY <1>3 DEF EditOffline, Queued, Accepts, server, OnePass, Syncing, TypeOK
<1>4. CASE StoreDraft
  BY <1>4 DEF StoreDraft, server, OnePass, Syncing, TypeOK
<1>5. CASE ViewDiagnosis
  BY <1>5 DEF ViewDiagnosis, OnServer, server, OnePass, Syncing, TypeOK
<1>6. ASSUME NEW l \in Logs, ClockIn(l)
      PROVE  OnePass'
  BY <1>6 DEF ClockIn, server, OnePass, Syncing, TypeOK
<1>7. CASE ClockOutTemp
  BY <1>7 DEF ClockOutTemp, server, OnePass, Syncing, TypeOK
<1>8. CASE ClockOutOffline
  BY <1>8 DEF ClockOutOffline, server, OnePass, Syncing, TypeOK
<1>9. CASE ClockOutOnline
  BY <1>9 DEF ClockOutOnline, OnePass, Syncing, TypeOK
<1>10. CASE OpenPage
  BY <1>10 DEF OpenPage, server, OnePass, Syncing, TypeOK
<1>11. ASSUME NEW f \in Photos, TakePhoto(f)
      PROVE  OnePass'
  BY <1>11 DEF TakePhoto, server, OnePass, Syncing, TypeOK
<1>12. ASSUME NEW t \in Tabs, StartSync(t)
      PROVE  OnePass'
  BY <1>12 DEF StartSync, Go, IdlePass, device, server, OnePass, Syncing,
     TypeOK
<1>13. ASSUME NEW t \in Tabs, NextStage(t)
      PROVE  OnePass'
  BY <1>13 DEF NextStage, Go, device, server, OnePass, Syncing, TypeOK
<1>14. ASSUME NEW t \in Tabs, NEW job \in pass[t].todo, SendJob(t, job)
      PROVE  OnePass'
  <2>1. causes' = causes
    BY <1>14 DEF SendJob
  <2> QED BY <1>14, <2>1, SendFacts DEF OnePass, Syncing
<1>15. ASSUME NEW t \in Tabs, ClockedIn(t)
      PROVE  OnePass'
  <2>1. causes' = causes
    BY <1>15 DEF ClockedIn
  <2> QED BY <1>15, <2>1, ClockedInFacts DEF OnePass, Syncing
<1>16. ASSUME NEW t \in Tabs, LogSent(t)
      PROVE  OnePass'
  BY <1>16 DEF LogSent, Go, Done, server, OnePass, Syncing, TypeOK
<1>17. ASSUME NEW t \in Tabs, PhotoSent(t)
      PROVE  OnePass'
  BY <1>17 DEF PhotoSent, Go, Done, server, OnePass, Syncing, TypeOK
<1>18. ASSUME NEW t \in Tabs, DeleteQueued(t)
      PROVE  OnePass'
  BY <1>18 DEF DeleteQueued, Go, Done, server, OnePass, Syncing, TypeOK
<1>19. ASSUME NEW t \in Tabs, ReadMark(t)
      PROVE  OnePass'
  BY <1>19 DEF ReadMark, Go, device, server, OnePass, Syncing, TypeOK
<1>20. ASSUME NEW t \in Tabs, PutDraft(t)
      PROVE  OnePass'
  BY <1>20 DEF PutDraft, Go, Done, server, OnePass, Syncing, TypeOK
<1>21. ASSUME NEW t \in Tabs, GiveUp(t)
      PROVE  OnePass'
  BY <1>21 DEF GiveUp, Go, Done, device, server, OnePass, Syncing, TypeOK
<1>22. ASSUME NEW t \in Tabs, CountRetry(t)
      PROVE  OnePass'
  BY <1>22 DEF CountRetry, Go, Done, server, OnePass, Syncing, TypeOK
<1>23. ASSUME NEW t \in Tabs, ServeCall(t)
      PROVE  OnePass'
  <2>1. causes' = causes
    BY <1>23 DEF ServeCall
  <2> QED BY <1>23, <2>1, ServeFacts DEF OnePass, Syncing
<1>24. CASE GoOnline
  BY <1>24 DEF GoOnline, device, server, OnePass, Syncing, TypeOK
<1>25. CASE GoOffline
  BY <1>25 DEF GoOffline, device, server, OnePass, Syncing, TypeOK
<1>26. ASSUME NEW t \in Tabs, CallFails(t)
      PROVE  OnePass'
  BY <1>26 DEF CallFails, Go, device, server, OnePass, Syncing, TypeOK
<1>27. ASSUME NEW t \in Tabs, AnswerLost(t)
      PROVE  OnePass'
  BY <1>27 DEF AnswerLost, Go, device, server, OnePass, Syncing, TypeOK
<1>28. ASSUME NEW t \in Tabs, TabCloses(t)
      PROVE  OnePass'
  BY <1>28 DEF TabCloses, Go, IdlePass, server, OnePass, Syncing, TypeOK
<1> QED BY <1>1, <1>2, <1>3, <1>4, <1>5, <1>6, <1>7, <1>8, <1>9, <1>10, <1>11,
       <1>12, <1>13, <1>14, <1>15, <1>16, <1>17, <1>18, <1>19, <1>20, <1>21,
       <1>22, <1>23, <1>24, <1>25, <1>26, <1>27, <1>28 DEF Next, PassStep,
       UserStep, MishapStep

LEMMA OwnsKept ==
  ASSUME TypeOK, Shape, NEW t \in Tabs, Owns(t), pass'[t] = pass[t],
         queue.w # None => queue'.w = queue.w,
         \A w \in Writes : applied[w] > 0 => applied'[w] > 0
  PROVE  Owns(t)'
<1>1. pass[t].todo \subseteq Jobs /\ (pass[t].at # "next" => pass[t].job \in Jobs)
  BY DEF TypeOK, Shape
<1>2. ASSUME NEW j \in pass[t].todo, j.kind = "queue" PROVE queue'.w = j.what
  BY <1>1, <1>2, QueueJob DEF Owns
<1>3. ASSUME pass[t].at \in {"sent", "failed", "done", "count"}, pass[t].job.kind = "queue"
      PROVE  queue'.w = queue.w
  BY <1>1, <1>3, QueueJob DEF Owns
<1>4. pass[t].at = "count" => pass[t].job.kind = "queue"
  BY DEF Shape
<1> QED BY <1>2, <1>3, <1>4 DEF Owns

LEMMA OwnsIdle ==
  ASSUME NEW u \in Tabs, pass'[u] = pass[u], pass[u].at = "next", pass[u].todo = {}
  PROVE  Owns(u)'
BY DEF Owns

LEMMA OwnsQueueStep ==
  ASSUME TypeOK, Shape, OnePass, OwnsQueue, [Next]_vars
  PROVE  OwnsQueue'
<1>1. CASE UNCHANGED vars
  BY <1>1 DEF vars, device, server, OwnsQueue, Owns
<1>2. ASSUME NEW w \in Writes, WriteOffline(w)
      PROVE  OwnsQueue'
  <2>1. /\ pass' = pass /\ causes' = causes /\ applied' = applied
        /\ queue.w # None => queue'.w = queue.w
    BY <1>2 DEF WriteOffline, Queued, server
  <2> QED BY <2>1, OwnsKept DEF OwnsQueue
<1>3. ASSUME NEW w \in Writes, EditOffline(w)
      PROVE  OwnsQueue'
  <2>1. /\ pass' = pass /\ causes' = causes /\ applied' = applied
        /\ queue.w # None => queue'.w = queue.w
    BY <1>3 DEF EditOffline, Queued, server
  <2> QED BY <2>1, OwnsKept DEF OwnsQueue
<1>4. CASE StoreDraft
  <2>1. /\ pass' = pass /\ causes' = causes /\ applied' = applied
        /\ queue.w # None => queue'.w = queue.w
    BY <1>4 DEF StoreDraft, server
  <2> QED BY <2>1, OwnsKept DEF OwnsQueue
<1>5. CASE ViewDiagnosis
  <2>1. /\ pass' = pass /\ causes' = causes /\ applied' = applied
        /\ queue.w # None => queue'.w = queue.w
    BY <1>5 DEF ViewDiagnosis, server
  <2> QED BY <2>1, OwnsKept DEF OwnsQueue
<1>6. ASSUME NEW l \in Logs, ClockIn(l)
      PROVE  OwnsQueue'
  <2>1. /\ pass' = pass /\ causes' = causes /\ applied' = applied
        /\ queue.w # None => queue'.w = queue.w
    BY <1>6 DEF ClockIn, server
  <2> QED BY <2>1, OwnsKept DEF OwnsQueue
<1>7. CASE ClockOutTemp
  <2>1. /\ pass' = pass /\ ("overlap" \in causes => "overlap" \in causes') /\ applied' = applied
        /\ queue.w # None => queue'.w = queue.w
    BY <1>7 DEF ClockOutTemp, server
  <2> QED BY <2>1, OwnsKept DEF OwnsQueue
<1>8. CASE ClockOutOffline
  <2>1. /\ pass' = pass /\ causes' = causes /\ applied' = applied
        /\ queue.w # None => queue'.w = queue.w
    BY <1>8 DEF ClockOutOffline, server
  <2> QED BY <2>1, OwnsKept DEF OwnsQueue
<1>9. CASE ClockOutOnline
  <2>1. /\ pass' = pass /\ ("overlap" \in causes => "overlap" \in causes') /\ applied' = applied
        /\ queue.w # None => queue'.w = queue.w
    BY <1>9 DEF ClockOutOnline
  <2> QED BY <2>1, OwnsKept DEF OwnsQueue
<1>10. CASE OpenPage
  <2>1. /\ pass' = pass /\ causes' = causes /\ applied' = applied
        /\ queue.w # None => queue'.w = queue.w
    BY <1>10 DEF OpenPage, server
  <2> QED BY <2>1, OwnsKept DEF OwnsQueue
<1>11. ASSUME NEW f \in Photos, TakePhoto(f)
      PROVE  OwnsQueue'
  <2>1. /\ pass' = pass /\ causes' = causes /\ applied' = applied
        /\ queue.w # None => queue'.w = queue.w
    BY <1>11 DEF TakePhoto, server
  <2> QED BY <2>1, OwnsKept DEF OwnsQueue
<1>12. ASSUME NEW t \in Tabs, StartSync(t)
      PROVE  OwnsQueue'
  <2> SUFFICES ASSUME "overlap" \notin causes', NEW u \in Tabs PROVE Owns(u)'
    BY DEF OwnsQueue
  <2>1. \A v \in Tabs \ {t} : ~Syncing(v) /\ pass'[v] = pass[v]
    BY <1>12 DEF StartSync, Go, TypeOK
  <2>2. CASE u # t
    BY <2>1, <2>2, OwnsIdle DEF Shape
  <2>3. CASE u = t
    <3>1. [IdlePass EXCEPT !.stage = "logs", !.todo = Todo("logs")] \in Passes
      BY PassType, PassUpdates, TodoFacts DEF Stages
    <3>2. pass'[t] = [IdlePass EXCEPT !.stage = "logs", !.todo = Todo("logs")]
      BY <1>12, <3>1, GoType DEF StartSync
    <3>3. pass'[t].todo = Todo("logs") /\ pass'[t].at = "next" /\ queue' = queue
      BY <1>12, <3>2 DEF IdlePass, StartSync, device
    <3> QED BY <2>3, <3>3, TodoFacts DEF Owns, Stages
  <2> QED BY <2>2, <2>3
<1>13. ASSUME NEW t \in Tabs, NextStage(t)
      PROVE  OwnsQueue'
  <2> SUFFICES ASSUME "overlap" \notin causes', NEW u \in Tabs PROVE Owns(u)'
    BY DEF OwnsQueue
  <2>1. /\ "overlap" \notin causes
        /\ Syncing(t) \/ pass[t].at # "next" \/ pass[t].todo # {}
    BY <1>13 DEF NextStage
  <2>2. \A v \in Tabs \ {t} : pass'[v] = pass[v]
    BY <1>13, StageFacts
  <2>3. CASE u # t
    BY <2>1, <2>2, <2>3, Others, OwnsIdle
  <2>4. CASE u = t
    <3>1. pass'[t].todo = Todo(After(pass[t].stage)) /\ pass'[t].at = "next" /\ queue' = queue
      BY <1>13, StageFacts DEF NextStage, device
    <3>2. After(pass[t].stage) \in Stages
      BY AfterType DEF TypeOK
    <3> QED BY <2>4, <3>1, <3>2, TodoFacts DEF Owns
  <2> QED BY <2>3, <2>4
<1>14. ASSUME NEW t \in Tabs, NEW job \in pass[t].todo, SendJob(t, job)
      PROVE  OwnsQueue'
  <2> SUFFICES ASSUME "overlap" \notin causes', NEW u \in Tabs PROVE Owns(u)'
    BY DEF OwnsQueue
  <2>1. /\ "overlap" \notin causes
        /\ Syncing(t) \/ pass[t].at # "next" \/ pass[t].todo # {}
    BY <1>14 DEF SendJob
  <2>2. \A v \in Tabs \ {t} : pass'[v] = pass[v]
    BY <1>14, SendFacts
  <2>3. CASE u # t
    BY <2>1, <2>2, <2>3, Others, OwnsIdle
  <2>4. CASE u = t
    <3>1. /\ pass'[t].todo = pass[t].todo \ {job} /\ pass'[t].job = job /\ job \in Jobs
          /\ pass'[t].at \in {"sent", "failed"} /\ Owns(t) /\ pass[t].todo \subseteq Jobs
      BY <1>14, <2>1, SendFacts DEF OwnsQueue, TypeOK
    <3>2. queue.w # None => queue' = queue
      BY <1>14, SendFacts, InterceptKeeps
    <3>3. ASSUME NEW j \in pass[t].todo, j.kind = "queue" PROVE queue'.w = j.what
      BY <3>1, <3>2, <3>3, QueueJob DEF Owns
    <3> QED BY <2>4, <3>1, <3>3 DEF Owns
  <2> QED BY <2>3, <2>4
<1>15. ASSUME NEW t \in Tabs, ClockedIn(t)
      PROVE  OwnsQueue'
  <2> SUFFICES ASSUME "overlap" \notin causes', NEW u \in Tabs PROVE Owns(u)'
    BY DEF OwnsQueue
  <2>1. /\ "overlap" \notin causes
        /\ Syncing(t) \/ pass[t].at # "next" \/ pass[t].todo # {}
    BY <1>15 DEF ClockedIn
  <2>2. \A v \in Tabs \ {t} : pass'[v] = pass[v]
    BY <1>15, ClockedInFacts
  <2>3. CASE u # t
    BY <2>1, <2>2, <2>3, Others, OwnsIdle
  <2>4. CASE u = t
    <3>1. /\ pass'[t].todo = pass[t].todo /\ pass'[t].job.kind = "then" /\ pass'[t].job \in Jobs
          /\ pass'[t].at \in {"sent", "failed"} /\ Owns(t) /\ pass[t].todo \subseteq Jobs
      BY <1>15, <2>1, ClockedInFacts DEF OwnsQueue, TypeOK
    <3>2. queue.w # None => queue' = queue
      BY <1>15, <3>1, ClockedInFacts, InterceptKeeps
    <3>3. ASSUME NEW j \in pass[t].todo, j.kind = "queue" PROVE queue'.w = j.what
      BY <3>1, <3>2, <3>3, QueueJob DEF Owns
    <3> QED BY <2>4, <3>1, <3>3 DEF Owns
  <2> QED BY <2>3, <2>4
<1>16. ASSUME NEW t \in Tabs, LogSent(t)
      PROVE  OwnsQueue'
  <2> SUFFICES ASSUME "overlap" \notin causes', NEW u \in Tabs PROVE Owns(u)'
    BY DEF OwnsQueue
  <2>1. /\ "overlap" \notin causes
        /\ Syncing(t) \/ pass[t].at # "next" \/ pass[t].todo # {}
    BY <1>16 DEF LogSent
  <2>2. \A v \in Tabs \ {t} : pass'[v] = pass[v]
    BY <1>16 DEF LogSent, Go, TypeOK
  <2>3. CASE u # t
    BY <2>1, <2>2, <2>3, Others, OwnsIdle
  <2>4. CASE u = t
    <3>1. pass'[t].todo = pass[t].todo /\ pass'[t].at = "next" /\ queue'.w = queue.w
      BY <1>16, PassType DEF LogSent, Go, Done, TypeOK, Passes
    <3>2. Owns(t)
      BY <2>1 DEF OwnsQueue
    <3> QED BY <2>4, <3>1, <3>2 DEF Owns
  <2> QED BY <2>3, <2>4
<1>17. ASSUME NEW t \in Tabs, PhotoSent(t)
      PROVE  OwnsQueue'
  <2> SUFFICES ASSUME "overlap" \notin causes', NEW u \in Tabs PROVE Owns(u)'
    BY DEF OwnsQueue
  <2>1. /\ "overlap" \notin causes
        /\ Syncing(t) \/ pass[t].at # "next" \/ pass[t].todo # {}
    BY <1>17 DEF PhotoSent
  <2>2. \A v \in Tabs \ {t} : pass'[v] = pass[v]
    BY <1>17 DEF PhotoSent, Go, TypeOK
  <2>3. CASE u # t
    BY <2>1, <2>2, <2>3, Others, OwnsIdle
  <2>4. CASE u = t
    <3>1. pass'[t].todo = pass[t].todo /\ pass'[t].at = "next" /\ queue'.w = queue.w
      BY <1>17, PassType DEF PhotoSent, Go, Done, TypeOK, Passes
    <3>2. Owns(t)
      BY <2>1 DEF OwnsQueue
    <3> QED BY <2>4, <3>1, <3>2 DEF Owns
  <2> QED BY <2>3, <2>4
<1>18. ASSUME NEW t \in Tabs, DeleteQueued(t)
      PROVE  OwnsQueue'
  <2> SUFFICES ASSUME "overlap" \notin causes', NEW u \in Tabs PROVE Owns(u)'
    BY DEF OwnsQueue
  <2>1. /\ "overlap" \notin causes
        /\ Syncing(t) \/ pass[t].at # "next" \/ pass[t].todo # {}
    BY <1>18 DEF DeleteQueued
  <2>2. \A v \in Tabs \ {t} : pass'[v] = pass[v]
    BY <1>18 DEF DeleteQueued, Go, TypeOK
  <2>3. CASE u # t
    BY <2>1, <2>2, <2>3, Others, OwnsIdle
  <2>4. CASE u = t
    <3>1. /\ Owns(t) /\ pass[t].job \in Jobs /\ pass[t].todo \subseteq Jobs
          /\ pass[t].at = "done" /\ pass[t].job.kind = "queue"
      BY <1>18, <2>1 DEF OwnsQueue, DeleteQueued, Shape, TypeOK
    <3>2. pass'[t].todo = pass[t].todo /\ pass'[t].at \in {"next", "mark"}
      BY <1>18, PassType DEF DeleteQueued, Go, Done, TypeOK, Passes
    <3>3. \A j \in pass[t].todo : j.kind # "queue"
      BY <3>1, SameJob DEF Owns
    <3> QED BY <2>4, <3>2, <3>3 DEF Owns
  <2> QED BY <2>3, <2>4
<1>19. ASSUME NEW t \in Tabs, ReadMark(t)
      PROVE  OwnsQueue'
  <2> SUFFICES ASSUME "overlap" \notin causes', NEW u \in Tabs PROVE Owns(u)'
    BY DEF OwnsQueue
  <2>1. /\ "overlap" \notin causes
        /\ Syncing(t) \/ pass[t].at # "next" \/ pass[t].todo # {}
    BY <1>19 DEF ReadMark
  <2>2. \A v \in Tabs \ {t} : pass'[v] = pass[v]
    BY <1>19 DEF ReadMark, Go, TypeOK
  <2>3. CASE u # t
    BY <2>1, <2>2, <2>3, Others, OwnsIdle
  <2>4. CASE u = t
    <3>1. pass'[t].todo = pass[t].todo /\ pass'[t].at = "put" /\ queue' = queue
      BY <1>19, PassType DEF ReadMark, Go, device, TypeOK, Passes
    <3>2. Owns(t)
      BY <2>1 DEF OwnsQueue
    <3> QED BY <2>4, <3>1, <3>2 DEF Owns
  <2> QED BY <2>3, <2>4
<1>20. ASSUME NEW t \in Tabs, PutDraft(t)
      PROVE  OwnsQueue'
  <2> SUFFICES ASSUME "overlap" \notin causes', NEW u \in Tabs PROVE Owns(u)'
    BY DEF OwnsQueue
  <2>1. /\ "overlap" \notin causes
        /\ Syncing(t) \/ pass[t].at # "next" \/ pass[t].todo # {}
    BY <1>20 DEF PutDraft
  <2>2. \A v \in Tabs \ {t} : pass'[v] = pass[v]
    BY <1>20 DEF PutDraft, Go, TypeOK
  <2>3. CASE u # t
    BY <2>1, <2>2, <2>3, Others, OwnsIdle
  <2>4. CASE u = t
    <3>1. pass'[t].todo = pass[t].todo /\ pass'[t].at = "next" /\ queue'.w = queue.w
      BY <1>20, PassType DEF PutDraft, Go, Done, TypeOK, Passes
    <3>2. Owns(t)
      BY <2>1 DEF OwnsQueue
    <3> QED BY <2>4, <3>1, <3>2 DEF Owns
  <2> QED BY <2>3, <2>4
<1>21. ASSUME NEW t \in Tabs, GiveUp(t)
      PROVE  OwnsQueue'
  <2> SUFFICES ASSUME "overlap" \notin causes', NEW u \in Tabs PROVE Owns(u)'
    BY DEF OwnsQueue
  <2>1. /\ "overlap" \notin causes
        /\ Syncing(t) \/ pass[t].at # "next" \/ pass[t].todo # {}
    BY <1>21 DEF GiveUp
  <2>2. \A v \in Tabs \ {t} : pass'[v] = pass[v]
    BY <1>21 DEF GiveUp, Go, TypeOK
  <2>3. CASE u # t
    BY <2>1, <2>2, <2>3, Others, OwnsIdle
  <2>4. CASE u = t
    <3>1. Owns(t) /\ pass[t].at = "failed" /\ queue' = queue
      BY <1>21, <2>1 DEF OwnsQueue, GiveUp, device
    <3>2. CASE pass[t].job.kind = "queue" /\ queue.w # None
      <4>1. /\ pass'[t].todo = pass[t].todo /\ pass'[t].at = "count"
            /\ pass'[t].job = pass[t].job /\ pass'[t].held = queue
        BY <1>21, <3>2, PassType DEF GiveUp, Go, TypeOK, Passes
      <4> QED BY <2>4, <3>1, <4>1 DEF Owns
    <3>3. CASE ~(pass[t].job.kind = "queue" /\ queue.w # None)
      <4>1. pass'[t].todo = pass[t].todo /\ pass'[t].at = "next"
        BY <1>21, <3>3, PassType DEF GiveUp, Go, Done, TypeOK, Passes
      <4> QED BY <2>4, <3>1, <4>1 DEF Owns
    <3> QED BY <3>2, <3>3
  <2> QED BY <2>3, <2>4
<1>22. ASSUME NEW t \in Tabs, CountRetry(t)
      PROVE  OwnsQueue'
  <2> SUFFICES ASSUME "overlap" \notin causes', NEW u \in Tabs PROVE Owns(u)'
    BY DEF OwnsQueue
  <2>1. /\ "overlap" \notin causes
        /\ Syncing(t) \/ pass[t].at # "next" \/ pass[t].todo # {}
    BY <1>22 DEF CountRetry
  <2>2. \A v \in Tabs \ {t} : pass'[v] = pass[v]
    BY <1>22 DEF CountRetry, Go, TypeOK
  <2>3. CASE u # t
    BY <2>1, <2>2, <2>3, Others, OwnsIdle
  <2>4. CASE u = t
    <3>1. Owns(t) /\ pass[t].at = "count" /\ pass[t].held \in Entries
      BY <1>22, <2>1 DEF OwnsQueue, CountRetry, Shape
    <3>2. pass'[t].todo = pass[t].todo /\ pass'[t].at = "next"
      BY <1>22, PassType DEF CountRetry, Go, Done, TypeOK, Passes
    <3>3. queue'.w = queue.w
      BY <1>22, <3>1 DEF CountRetry, Owns, Entries
    <3> QED BY <2>4, <3>1, <3>2, <3>3 DEF Owns
  <2> QED BY <2>3, <2>4
<1>23. ASSUME NEW t \in Tabs, ServeCall(t)
      PROVE  OwnsQueue'
  <2> SUFFICES ASSUME "overlap" \notin causes', NEW u \in Tabs PROVE Owns(u)'
    BY DEF OwnsQueue
  <2>1. /\ "overlap" \notin causes
        /\ Syncing(t) \/ pass[t].at # "next" \/ pass[t].todo # {}
    BY <1>23 DEF ServeCall
  <2>2. \A v \in Tabs \ {t} : pass'[v] = pass[v]
    BY <1>23, ServeFacts
  <2>3. CASE u # t
    BY <2>1, <2>2, <2>3, Others, OwnsIdle
  <2>4. CASE u = t
    <3>1. /\ pass[t].at = "sent" /\ pass'[t].todo = pass[t].todo
          /\ pass'[t].job = pass[t].job
          /\ \/ pass'[t].at = "failed"
             \/ pass'[t].at = "done" /\ CarryOut(pass[t].job)
      BY <1>23, ServeFacts
    <3>0. Owns(t) /\ pass[t].job \in Jobs /\ queue' = queue
      BY <1>23, <2>1, <3>1 DEF OwnsQueue, ServeCall, Shape, device
    <3>2. ASSUME pass'[t].at = "done", pass[t].job.kind = "queue", pass[t].job.what \in Writes
          PROVE  applied'[pass[t].job.what] > 0
      BY <3>0, <3>1, <3>2, CarryOutFacts DEF TypeOK
    <3> QED BY <2>4, <3>0, <3>1, <3>2 DEF Owns
  <2> QED BY <2>3, <2>4
<1>24. CASE GoOnline
  <2>1. /\ pass' = pass /\ causes' = causes /\ applied' = applied
        /\ queue.w # None => queue'.w = queue.w
    BY <1>24 DEF GoOnline, device, server
  <2> QED BY <2>1, OwnsKept DEF OwnsQueue
<1>25. CASE GoOffline
  <2>1. /\ pass' = pass /\ ("overlap" \in causes => "overlap" \in causes') /\ applied' = applied
        /\ queue.w # None => queue'.w = queue.w
    BY <1>25 DEF GoOffline, device, server
  <2> QED BY <2>1, OwnsKept DEF OwnsQueue
<1>26. ASSUME NEW t \in Tabs, CallFails(t)
      PROVE  OwnsQueue'
  <2> SUFFICES ASSUME "overlap" \notin causes', NEW u \in Tabs PROVE Owns(u)'
    BY DEF OwnsQueue
  <2>1. /\ "overlap" \notin causes
        /\ Syncing(t) \/ pass[t].at # "next" \/ pass[t].todo # {}
    BY <1>26 DEF CallFails
  <2>2. \A v \in Tabs \ {t} : pass'[v] = pass[v]
    BY <1>26 DEF CallFails, Go, TypeOK
  <2>3. CASE u # t
    BY <2>1, <2>2, <2>3, Others, OwnsIdle
  <2>4. CASE u = t
    <3>1. /\ Owns(t) /\ queue' = queue /\ pass[t].at \in {"sent", "done"}
          /\ pass'[t].todo = pass[t].todo /\ pass'[t].job = pass[t].job /\ pass'[t].at = "failed"
      BY <1>26, <2>1, PassType DEF OwnsQueue, CallFails, Go, device, TypeOK, Passes
    <3> QED BY <2>4, <3>1 DEF Owns
  <2> QED BY <2>3, <2>4
<1>27. ASSUME NEW t \in Tabs, AnswerLost(t)
      PROVE  OwnsQueue'
  <2> SUFFICES ASSUME "overlap" \notin causes', NEW u \in Tabs PROVE Owns(u)'
    BY DEF OwnsQueue
  <2>1. /\ "overlap" \notin causes
        /\ Syncing(t) \/ pass[t].at # "next" \/ pass[t].todo # {}
    BY <1>27 DEF AnswerLost
  <2>2. \A v \in Tabs \ {t} : pass'[v] = pass[v]
    BY <1>27 DEF AnswerLost, Go, TypeOK
  <2>3. CASE u # t
    BY <2>1, <2>2, <2>3, Others, OwnsIdle
  <2>4. CASE u = t
    <3>1. /\ Owns(t) /\ queue' = queue /\ pass[t].at \in {"sent", "done"}
          /\ pass'[t].todo = pass[t].todo /\ pass'[t].job = pass[t].job /\ pass'[t].at = "failed"
      BY <1>27, <2>1, PassType DEF OwnsQueue, AnswerLost, Go, device, TypeOK, Passes
    <3> QED BY <2>4, <3>1 DEF Owns
  <2> QED BY <2>3, <2>4
<1>28. ASSUME NEW t \in Tabs, TabCloses(t)
      PROVE  OwnsQueue'
  <2> SUFFICES ASSUME "overlap" \notin causes', NEW u \in Tabs PROVE Owns(u)'
    BY DEF OwnsQueue
  <2>1. /\ "overlap" \notin causes /\ queue' = queue /\ applied' = applied
        /\ \A v \in Tabs \ {t} : pass'[v] = pass[v]
        /\ pass'[t] = IdlePass
    BY <1>28 DEF TabCloses, Go, server, TypeOK
  <2>2. CASE u # t
    BY <2>1, <2>2, OwnsKept DEF OwnsQueue
  <2>3. CASE u = t
    BY <2>1, <2>3 DEF Owns, IdlePass
  <2> QED BY <2>2, <2>3
<1> QED BY <1>1, <1>2, <1>3, <1>4, <1>5, <1>6, <1>7, <1>8, <1>9, <1>10, <1>11,
       <1>12, <1>13, <1>14, <1>15, <1>16, <1>17, <1>18, <1>19, <1>20, <1>21,
       <1>22, <1>23, <1>24, <1>25, <1>26, <1>27, <1>28 DEF Next, PassStep,
       UserStep, MishapStep

(* What the queue held and the server had not carried out stays so, step by *)
(* step.                                                                    *)
LEMMA SafeStep ==
  ASSUME TypeOK, Shape, OwnsQueue, [Next]_vars
  PROVE  "overlap" \notin causes' => \A w \in Writes : Safe(w) => Safe(w)'
<1>1. CASE UNCHANGED vars
  BY <1>1 DEF vars, device, server, Safe
<1>2. ASSUME NEW w \in Writes, WriteOffline(w)
      PROVE  "overlap" \notin causes' => \A v \in Writes : Safe(v) => Safe(v)'
  <2> SUFFICES ASSUME "overlap" \notin causes', NEW x \in Writes, Safe(x) PROVE Safe(x)'
    OBVIOUS
  <2>1. applied' = applied /\ (queue.w # None => queue'.w = queue.w)
    BY <1>2 DEF WriteOffline, Queued, server
  <2> QED BY <2>1, OfflineAssumption DEF Safe
<1>3. ASSUME NEW w \in Writes, EditOffline(w)
      PROVE  "overlap" \notin causes' => \A v \in Writes : Safe(v) => Safe(v)'
  <2> SUFFICES ASSUME "overlap" \notin causes', NEW x \in Writes, Safe(x) PROVE Safe(x)'
    OBVIOUS
  <2>1. applied' = applied /\ (queue.w # None => queue'.w = queue.w)
    BY <1>3 DEF EditOffline, Queued, server
  <2> QED BY <2>1, OfflineAssumption DEF Safe
<1>4. CASE StoreDraft
  BY <1>4 DEF StoreDraft, server, Safe
<1>5. CASE ViewDiagnosis
  BY <1>5 DEF ViewDiagnosis, OnServer, server, Safe
<1>6. ASSUME NEW l \in Logs, ClockIn(l)
      PROVE  "overlap" \notin causes' => \A w \in Writes : Safe(w) => Safe(w)'
  BY <1>6 DEF ClockIn, server, Safe
<1>7. CASE ClockOutTemp
  BY <1>7 DEF ClockOutTemp, server, Safe
<1>8. CASE ClockOutOffline
  BY <1>8 DEF ClockOutOffline, server, Safe
<1>9. CASE ClockOutOnline
  BY <1>9 DEF ClockOutOnline, Safe
<1>10. CASE OpenPage
  BY <1>10 DEF OpenPage, server, Safe
<1>11. ASSUME NEW f \in Photos, TakePhoto(f)
      PROVE  "overlap" \notin causes' => \A w \in Writes : Safe(w) => Safe(w)'
  BY <1>11 DEF TakePhoto, server, Safe
<1>12. ASSUME NEW t \in Tabs, StartSync(t)
      PROVE  "overlap" \notin causes' => \A w \in Writes : Safe(w) => Safe(w)'
  BY <1>12 DEF StartSync, Go, IdlePass, device, server, Safe
<1>13. ASSUME NEW t \in Tabs, NextStage(t)
      PROVE  "overlap" \notin causes' => \A w \in Writes : Safe(w) => Safe(w)'
  BY <1>13 DEF NextStage, Go, device, server, Safe
<1>14. ASSUME NEW t \in Tabs, NEW job \in pass[t].todo, SendJob(t, job)
      PROVE  "overlap" \notin causes' => \A w \in Writes : Safe(w) => Safe(w)'
  <2> SUFFICES ASSUME "overlap" \notin causes', NEW x \in Writes, Safe(x) PROVE Safe(x)'
    OBVIOUS
  <2>1. applied' = applied /\ (queue.w # None => queue'.w = queue.w)
    BY <1>14, SendFacts, InterceptKeeps DEF SendJob, server
  <2> QED BY <2>1, OfflineAssumption DEF Safe
<1>15. ASSUME NEW t \in Tabs, ClockedIn(t)
      PROVE  "overlap" \notin causes' => \A w \in Writes : Safe(w) => Safe(w)'
  <2> SUFFICES ASSUME "overlap" \notin causes', NEW x \in Writes, Safe(x) PROVE Safe(x)'
    OBVIOUS
  <2>1. applied' = applied /\ (queue.w # None => queue'.w = queue.w)
    BY <1>15, ClockedInFacts, InterceptKeeps DEF ClockedIn, server
  <2> QED BY <2>1, OfflineAssumption DEF Safe
<1>16. ASSUME NEW t \in Tabs, LogSent(t)
      PROVE  "overlap" \notin causes' => \A w \in Writes : Safe(w) => Safe(w)'
  BY <1>16 DEF LogSent, Go, Done, server, Safe
<1>17. ASSUME NEW t \in Tabs, PhotoSent(t)
      PROVE  "overlap" \notin causes' => \A w \in Writes : Safe(w) => Safe(w)'
  BY <1>17 DEF PhotoSent, Go, Done, server, Safe
<1>18. ASSUME NEW t \in Tabs, DeleteQueued(t)
      PROVE  "overlap" \notin causes' => \A w \in Writes : Safe(w) => Safe(w)'
  <2> SUFFICES ASSUME "overlap" \notin causes', NEW x \in Writes, Safe(x) PROVE Safe(x)'
    OBVIOUS
  <2>1. /\ "overlap" \notin causes /\ applied' = applied
        /\ pass[t].at = "done" /\ pass[t].job.kind = "queue"
    BY <1>18 DEF DeleteQueued, server
  <2>2. queue.w \in Writes => applied[queue.w] > 0
    BY <2>1 DEF OwnsQueue, Owns
  <2> QED BY <2>1, <2>2 DEF Safe
<1>19. ASSUME NEW t \in Tabs, ReadMark(t)
      PROVE  "overlap" \notin causes' => \A w \in Writes : Safe(w) => Safe(w)'
  BY <1>19 DEF ReadMark, Go, device, server, Safe
<1>20. ASSUME NEW t \in Tabs, PutDraft(t)
      PROVE  "overlap" \notin causes' => \A w \in Writes : Safe(w) => Safe(w)'
  BY <1>20 DEF PutDraft, Go, Done, server, Safe
<1>21. ASSUME NEW t \in Tabs, GiveUp(t)
      PROVE  "overlap" \notin causes' => \A w \in Writes : Safe(w) => Safe(w)'
  BY <1>21 DEF GiveUp, Go, Done, device, server, Safe
<1>22. ASSUME NEW t \in Tabs, CountRetry(t)
      PROVE  "overlap" \notin causes' => \A w \in Writes : Safe(w) => Safe(w)'
  <2> SUFFICES ASSUME "overlap" \notin causes', NEW x \in Writes, Safe(x) PROVE Safe(x)'
    OBVIOUS
  <2>1. /\ "overlap" \notin causes /\ applied' = applied
        /\ pass[t].at = "count" /\ pass[t].held \in Entries
    BY <1>22 DEF CountRetry, server, Shape
  <2>2. pass[t].held.w = queue.w
    BY <2>1 DEF OwnsQueue, Owns
  <2>3. queue'.w = queue.w
    BY <1>22, <2>1, <2>2 DEF CountRetry, Entries
  <2> QED BY <2>1, <2>3 DEF Safe
<1>23. ASSUME NEW t \in Tabs, ServeCall(t)
      PROVE  "overlap" \notin causes' => \A w \in Writes : Safe(w) => Safe(w)'
  <2> SUFFICES ASSUME "overlap" \notin causes', NEW x \in Writes, Safe(x) PROVE Safe(x)'
    OBVIOUS
  <2>1. queue' = queue /\ pass[t].job \in Jobs
    BY <1>23, ServeFacts DEF ServeCall, device, Shape
  <2>2. applied'[x] = applied[x] \/ applied'[x] = applied[x] + 1
    <3>1. CASE UNCHANGED server
      BY <3>1 DEF server
    <3>2. CASE CarryOut(pass[t].job)
      BY <2>1, <3>2, CarryOutFacts
    <3> QED BY <1>23, <3>1, <3>2, ServeFacts
  <2> QED BY <2>1, <2>2 DEF Safe, TypeOK
<1>24. CASE GoOnline
  BY <1>24 DEF GoOnline, device, server, Safe
<1>25. CASE GoOffline
  BY <1>25 DEF GoOffline, device, server, Safe
<1>26. ASSUME NEW t \in Tabs, CallFails(t)
      PROVE  "overlap" \notin causes' => \A w \in Writes : Safe(w) => Safe(w)'
  BY <1>26 DEF CallFails, Go, device, server, Safe
<1>27. ASSUME NEW t \in Tabs, AnswerLost(t)
      PROVE  "overlap" \notin causes' => \A w \in Writes : Safe(w) => Safe(w)'
  BY <1>27 DEF AnswerLost, Go, device, server, Safe
<1>28. ASSUME NEW t \in Tabs, TabCloses(t)
      PROVE  "overlap" \notin causes' => \A w \in Writes : Safe(w) => Safe(w)'
  BY <1>28 DEF TabCloses, Go, IdlePass, server, Safe
<1> QED BY <1>1, <1>2, <1>3, <1>4, <1>5, <1>6, <1>7, <1>8, <1>9, <1>10, <1>11,
       <1>12, <1>13, <1>14, <1>15, <1>16, <1>17, <1>18, <1>19, <1>20, <1>21,
       <1>22, <1>23, <1>24, <1>25, <1>26, <1>27, <1>28 DEF Next, PassStep,
       UserStep, MishapStep

LEMMA AccountedKept ==
  ASSUME TypeOK, Accounted, "overlap" \notin causes,
         \A w \in Writes : Safe(w) => Safe(w)'
  PROVE  /\ \A w \in taken : Safe(w)'
         /\ \A w \in draft.edits : Safe(w)'
         /\ saving # None => \A w \in saving.edits : Safe(w)'
         /\ \A w \in OnServer : Safe(w)'
         /\ \A t \in Tabs :
              HoldsDraft(t) /\ pass[t].held \in Drafts => \A w \in pass[t].held.edits : Safe(w)'
<1>1. Patches \subseteq Writes
  BY OfflineAssumption
<1>2. /\ taken \subseteq Writes /\ draft.edits \subseteq Writes
      /\ saving # None => saving.edits \subseteq Writes
      /\ \A d \in Drafts : d.edits \subseteq Writes
  BY <1>1 DEF TypeOK, Drafts
<1>3. \A w \in OnServer : w \in Writes /\ Safe(w)
  BY <1>1 DEF OnServer, Safe
<1> QED BY <1>2, <1>3 DEF Accounted

LEMMA HeldKept ==
  ASSUME TypeOK, Shape, Accounted, "overlap" \notin causes,
         \A w \in Writes : Safe(w) => Safe(w)',
         NEW t \in Tabs, pass'[t] = pass[t]
  PROVE  HoldsDraft(t)' => \A w \in pass'[t].held.edits : Safe(w)'
BY AccountedKept DEF HoldsDraft, Shape

LEMMA AccountedStep ==
  ASSUME TypeOK, Shape, OwnsQueue, Accounted, [Next]_vars
  PROVE  Accounted'
<1>1. CASE UNCHANGED vars
  BY <1>1 DEF vars, device, server, Accounted, Safe, HoldsDraft
<1>2. ASSUME NEW w \in Writes, WriteOffline(w)
      PROVE  Accounted'
  <2> SUFFICES ASSUME "overlap" \notin causes'
               PROVE  /\ \A v \in taken' : Safe(v)'
                      /\ \A v \in draft'.edits : Safe(v)'
                      /\ saving' # None => \A v \in saving'.edits : Safe(v)'
                      /\ \A u \in Tabs : HoldsDraft(u)' => \A v \in pass'[u].held.edits : Safe(v)'
    BY DEF Accounted
  <2>1. "overlap" \notin causes /\ \A v \in Writes : Safe(v) => Safe(v)'
    BY <1>2, SafeStep DEF WriteOffline
  <2>2. /\ pass' = pass /\ draft' = draft /\ saving' = saving
        /\ \A v \in taken' \ taken : queue'.w = v
    BY <1>2 DEF WriteOffline, Queued, Accepts
  <2>3. \A v \in taken' : Safe(v)'
    BY <2>1, <2>2, AccountedKept DEF Safe
  <2> QED BY <2>1, <2>2, <2>3, AccountedKept, HeldKept
<1>3. ASSUME NEW w \in Writes, EditOffline(w)
      PROVE  Accounted'
  <2> SUFFICES ASSUME "overlap" \notin causes'
               PROVE  /\ \A v \in taken' : Safe(v)'
                      /\ \A v \in draft'.edits : Safe(v)'
                      /\ saving' # None => \A v \in saving'.edits : Safe(v)'
                      /\ \A u \in Tabs : HoldsDraft(u)' => \A v \in pass'[u].held.edits : Safe(v)'
    BY DEF Accounted
  <2>1. "overlap" \notin causes /\ \A v \in Writes : Safe(v) => Safe(v)'
    BY <1>3, SafeStep DEF EditOffline
  <2>2. CASE Accepts
    <3>1. /\ pass' = pass /\ draft' = draft /\ queue'.w = w /\ taken' = taken \cup {w}
          /\ saving'.edits \subseteq draft.edits \cup {w}
      BY <1>3, <2>2 DEF EditOffline, Queued, Accepts
    <3>2. Safe(w)'
      BY <3>1 DEF Safe
    <3>3. /\ \A v \in draft.edits \cup {w} : Safe(v)'
          /\ \A v \in taken' : Safe(v)'
      BY <2>1, <3>1, <3>2, AccountedKept
    <3> QED BY <2>1, <3>1, <3>3, AccountedKept, HeldKept
  <2>3. CASE ~Accepts
    <3>1. pass' = pass /\ draft' = draft /\ taken' = taken /\ saving' = saving
      BY <1>3, <2>3 DEF EditOffline
    <3> QED BY <2>1, <3>1, AccountedKept, HeldKept
  <2> QED BY <2>2, <2>3
<1>4. CASE StoreDraft
  <2> SUFFICES ASSUME "overlap" \notin causes'
               PROVE  /\ \A w \in taken' : Safe(w)'
                      /\ \A w \in draft'.edits : Safe(w)'
                      /\ saving' # None => \A w \in saving'.edits : Safe(w)'
                      /\ \A u \in Tabs : HoldsDraft(u)' => \A w \in pass'[u].held.edits : Safe(w)'
    BY DEF Accounted
  <2>1. "overlap" \notin causes /\ \A w \in Writes : Safe(w) => Safe(w)'
    BY <1>4, SafeStep DEF StoreDraft
  <2>2. pass' = pass /\ taken' = taken /\ saving # None /\ draft' = saving /\ saving' = None
    BY <1>4 DEF StoreDraft
  <2> QED BY <2>1, <2>2, AccountedKept, HeldKept
<1>5. CASE ViewDiagnosis
  <2> SUFFICES ASSUME "overlap" \notin causes'
               PROVE  /\ \A w \in taken' : Safe(w)'
                      /\ \A w \in draft'.edits : Safe(w)'
                      /\ saving' # None => \A w \in saving'.edits : Safe(w)'
                      /\ \A u \in Tabs : HoldsDraft(u)' => \A w \in pass'[u].held.edits : Safe(w)'
    BY DEF Accounted
  <2>1. "overlap" \notin causes /\ \A w \in Writes : Safe(w) => Safe(w)'
    BY <1>5, SafeStep DEF ViewDiagnosis
  <2>2. pass' = pass /\ taken' = taken /\ draft'.edits = OnServer /\ saving' = saving
    BY <1>5 DEF ViewDiagnosis
  <2> QED BY <2>1, <2>2, AccountedKept, HeldKept
<1>6. ASSUME NEW l \in Logs, ClockIn(l)
      PROVE  Accounted'
  <2> SUFFICES ASSUME "overlap" \notin causes'
               PROVE  /\ \A w \in taken' : Safe(w)'
                      /\ \A w \in draft'.edits : Safe(w)'
                      /\ saving' # None => \A w \in saving'.edits : Safe(w)'
                      /\ \A u \in Tabs : HoldsDraft(u)' => \A w \in pass'[u].held.edits : Safe(w)'
    BY DEF Accounted
  <2>1. "overlap" \notin causes /\ \A w \in Writes : Safe(w) => Safe(w)'
    BY <1>6, SafeStep DEF ClockIn
  <2>2. pass' = pass /\ taken' = taken /\ draft' = draft /\ saving' = saving
    BY <1>6 DEF ClockIn
  <2> QED BY <2>1, <2>2, AccountedKept, HeldKept
<1>7. CASE ClockOutTemp
  <2> SUFFICES ASSUME "overlap" \notin causes'
               PROVE  /\ \A w \in taken' : Safe(w)'
                      /\ \A w \in draft'.edits : Safe(w)'
                      /\ saving' # None => \A w \in saving'.edits : Safe(w)'
                      /\ \A u \in Tabs : HoldsDraft(u)' => \A w \in pass'[u].held.edits : Safe(w)'
    BY DEF Accounted
  <2>1. "overlap" \notin causes /\ \A w \in Writes : Safe(w) => Safe(w)'
    BY <1>7, SafeStep DEF ClockOutTemp
  <2>2. pass' = pass /\ taken' = taken /\ draft' = draft /\ saving' = saving
    BY <1>7 DEF ClockOutTemp
  <2> QED BY <2>1, <2>2, AccountedKept, HeldKept
<1>8. CASE ClockOutOffline
  <2> SUFFICES ASSUME "overlap" \notin causes'
               PROVE  /\ \A w \in taken' : Safe(w)'
                      /\ \A w \in draft'.edits : Safe(w)'
                      /\ saving' # None => \A w \in saving'.edits : Safe(w)'
                      /\ \A u \in Tabs : HoldsDraft(u)' => \A w \in pass'[u].held.edits : Safe(w)'
    BY DEF Accounted
  <2>1. "overlap" \notin causes /\ \A w \in Writes : Safe(w) => Safe(w)'
    BY <1>8, SafeStep DEF ClockOutOffline
  <2>2. pass' = pass /\ taken' = taken /\ draft' = draft /\ saving' = saving
    BY <1>8 DEF ClockOutOffline
  <2> QED BY <2>1, <2>2, AccountedKept, HeldKept
<1>9. CASE ClockOutOnline
  <2> SUFFICES ASSUME "overlap" \notin causes'
               PROVE  /\ \A w \in taken' : Safe(w)'
                      /\ \A w \in draft'.edits : Safe(w)'
                      /\ saving' # None => \A w \in saving'.edits : Safe(w)'
                      /\ \A u \in Tabs : HoldsDraft(u)' => \A w \in pass'[u].held.edits : Safe(w)'
    BY DEF Accounted
  <2>1. "overlap" \notin causes /\ \A w \in Writes : Safe(w) => Safe(w)'
    BY <1>9, SafeStep DEF ClockOutOnline
  <2>2. pass' = pass /\ taken' = taken /\ draft' = draft /\ saving' = saving
    BY <1>9 DEF ClockOutOnline
  <2> QED BY <2>1, <2>2, AccountedKept, HeldKept
<1>10. CASE OpenPage
  <2> SUFFICES ASSUME "overlap" \notin causes'
               PROVE  /\ \A w \in taken' : Safe(w)'
                      /\ \A w \in draft'.edits : Safe(w)'
                      /\ saving' # None => \A w \in saving'.edits : Safe(w)'
                      /\ \A u \in Tabs : HoldsDraft(u)' => \A w \in pass'[u].held.edits : Safe(w)'
    BY DEF Accounted
  <2>1. "overlap" \notin causes /\ \A w \in Writes : Safe(w) => Safe(w)'
    BY <1>10, SafeStep DEF OpenPage
  <2>2. pass' = pass /\ taken' = taken /\ draft' = draft /\ saving' = saving
    BY <1>10 DEF OpenPage
  <2> QED BY <2>1, <2>2, AccountedKept, HeldKept
<1>11. ASSUME NEW f \in Photos, TakePhoto(f)
      PROVE  Accounted'
  <2> SUFFICES ASSUME "overlap" \notin causes'
               PROVE  /\ \A w \in taken' : Safe(w)'
                      /\ \A w \in draft'.edits : Safe(w)'
                      /\ saving' # None => \A w \in saving'.edits : Safe(w)'
                      /\ \A u \in Tabs : HoldsDraft(u)' => \A w \in pass'[u].held.edits : Safe(w)'
    BY DEF Accounted
  <2>1. "overlap" \notin causes /\ \A w \in Writes : Safe(w) => Safe(w)'
    BY <1>11, SafeStep DEF TakePhoto
  <2>2. pass' = pass /\ taken' = taken /\ draft' = draft /\ saving' = saving
    BY <1>11 DEF TakePhoto
  <2> QED BY <2>1, <2>2, AccountedKept, HeldKept
<1>12. ASSUME NEW t \in Tabs, StartSync(t)
      PROVE  Accounted'
  <2> SUFFICES ASSUME "overlap" \notin causes'
               PROVE  /\ \A w \in taken' : Safe(w)'
                      /\ \A w \in draft'.edits : Safe(w)'
                      /\ saving' # None => \A w \in saving'.edits : Safe(w)'
                      /\ \A u \in Tabs : HoldsDraft(u)' => \A w \in pass'[u].held.edits : Safe(w)'
    BY DEF Accounted
  <2>1. "overlap" \notin causes /\ \A w \in Writes : Safe(w) => Safe(w)'
    BY <1>12, SafeStep DEF StartSync
  <2>2. /\ taken' = taken /\ draft' = draft /\ saving' = saving
        /\ \A u \in Tabs \ {t} : pass'[u] = pass[u]
    BY <1>12 DEF StartSync, Go, device, TypeOK
  <2>3. ~HoldsDraft(t)'
    BY <1>12, PassType DEF StartSync, Go, IdlePass, HoldsDraft, TypeOK
  <2> QED BY <2>1, <2>2, <2>3, AccountedKept, HeldKept
<1>13. ASSUME NEW t \in Tabs, NextStage(t)
      PROVE  Accounted'
  <2> SUFFICES ASSUME "overlap" \notin causes'
               PROVE  /\ \A w \in taken' : Safe(w)'
                      /\ \A w \in draft'.edits : Safe(w)'
                      /\ saving' # None => \A w \in saving'.edits : Safe(w)'
                      /\ \A u \in Tabs : HoldsDraft(u)' => \A w \in pass'[u].held.edits : Safe(w)'
    BY DEF Accounted
  <2>1. "overlap" \notin causes /\ \A w \in Writes : Safe(w) => Safe(w)'
    BY <1>13, SafeStep DEF NextStage
  <2>2. /\ taken' = taken /\ draft' = draft /\ saving' = saving
        /\ \A u \in Tabs \ {t} : pass'[u] = pass[u]
    BY <1>13, StageFacts DEF NextStage, device
  <2>3. ~HoldsDraft(t)'
    BY <1>13, StageFacts DEF NextStage, HoldsDraft
  <2> QED BY <2>1, <2>2, <2>3, AccountedKept, HeldKept
<1>14. ASSUME NEW t \in Tabs, NEW job \in pass[t].todo, SendJob(t, job)
      PROVE  Accounted'
  <2> SUFFICES ASSUME "overlap" \notin causes'
               PROVE  /\ \A w \in taken' : Safe(w)'
                      /\ \A w \in draft'.edits : Safe(w)'
                      /\ saving' # None => \A w \in saving'.edits : Safe(w)'
                      /\ \A u \in Tabs : HoldsDraft(u)' => \A w \in pass'[u].held.edits : Safe(w)'
    BY DEF Accounted
  <2>1. "overlap" \notin causes /\ \A w \in Writes : Safe(w) => Safe(w)'
    BY <1>14, SafeStep DEF SendJob
  <2>2. /\ taken' = taken /\ draft' = draft /\ saving' = saving
        /\ \A u \in Tabs \ {t} : pass'[u] = pass[u]
    BY <1>14, SendFacts DEF SendJob
  <2>3. ~HoldsDraft(t)'
    BY <1>14, SendFacts DEF HoldsDraft
  <2> QED BY <2>1, <2>2, <2>3, AccountedKept, HeldKept
<1>15. ASSUME NEW t \in Tabs, ClockedIn(t)
      PROVE  Accounted'
  <2> SUFFICES ASSUME "overlap" \notin causes'
               PROVE  /\ \A w \in taken' : Safe(w)'
                      /\ \A w \in draft'.edits : Safe(w)'
                      /\ saving' # None => \A w \in saving'.edits : Safe(w)'
                      /\ \A u \in Tabs : HoldsDraft(u)' => \A w \in pass'[u].held.edits : Safe(w)'
    BY DEF Accounted
  <2>1. "overlap" \notin causes /\ \A w \in Writes : Safe(w) => Safe(w)'
    BY <1>15, SafeStep DEF ClockedIn
  <2>2. /\ taken' = taken /\ draft' = draft /\ saving' = saving
        /\ \A u \in Tabs \ {t} : pass'[u] = pass[u]
    BY <1>15, ClockedInFacts DEF ClockedIn
  <2>3. ~HoldsDraft(t)'
    BY <1>15, ClockedInFacts DEF HoldsDraft
  <2> QED BY <2>1, <2>2, <2>3, AccountedKept, HeldKept
<1>16. ASSUME NEW t \in Tabs, LogSent(t)
      PROVE  Accounted'
  <2> SUFFICES ASSUME "overlap" \notin causes'
               PROVE  /\ \A w \in taken' : Safe(w)'
                      /\ \A w \in draft'.edits : Safe(w)'
                      /\ saving' # None => \A w \in saving'.edits : Safe(w)'
                      /\ \A u \in Tabs : HoldsDraft(u)' => \A w \in pass'[u].held.edits : Safe(w)'
    BY DEF Accounted
  <2>1. "overlap" \notin causes /\ \A w \in Writes : Safe(w) => Safe(w)'
    BY <1>16, SafeStep DEF LogSent
  <2>2. /\ taken' = taken /\ draft' = draft /\ saving' = saving
        /\ \A u \in Tabs \ {t} : pass'[u] = pass[u]
    BY <1>16 DEF LogSent, Go, TypeOK
  <2>3. ~HoldsDraft(t)'
    BY <1>16 DEF LogSent, Go, Done, HoldsDraft, TypeOK
  <2> QED BY <2>1, <2>2, <2>3, AccountedKept, HeldKept
<1>17. ASSUME NEW t \in Tabs, PhotoSent(t)
      PROVE  Accounted'
  <2> SUFFICES ASSUME "overlap" \notin causes'
               PROVE  /\ \A w \in taken' : Safe(w)'
                      /\ \A w \in draft'.edits : Safe(w)'
                      /\ saving' # None => \A w \in saving'.edits : Safe(w)'
                      /\ \A u \in Tabs : HoldsDraft(u)' => \A w \in pass'[u].held.edits : Safe(w)'
    BY DEF Accounted
  <2>1. "overlap" \notin causes /\ \A w \in Writes : Safe(w) => Safe(w)'
    BY <1>17, SafeStep DEF PhotoSent
  <2>2. /\ taken' = taken /\ draft' = draft /\ saving' = saving
        /\ \A u \in Tabs \ {t} : pass'[u] = pass[u]
    BY <1>17 DEF PhotoSent, Go, TypeOK
  <2>3. ~HoldsDraft(t)'
    BY <1>17 DEF PhotoSent, Go, Done, HoldsDraft, TypeOK
  <2> QED BY <2>1, <2>2, <2>3, AccountedKept, HeldKept
<1>18. ASSUME NEW t \in Tabs, DeleteQueued(t)
      PROVE  Accounted'
  <2> SUFFICES ASSUME "overlap" \notin causes'
               PROVE  /\ \A w \in taken' : Safe(w)'
                      /\ \A w \in draft'.edits : Safe(w)'
                      /\ saving' # None => \A w \in saving'.edits : Safe(w)'
                      /\ \A u \in Tabs : HoldsDraft(u)' => \A w \in pass'[u].held.edits : Safe(w)'
    BY DEF Accounted
  <2>1. "overlap" \notin causes /\ \A w \in Writes : Safe(w) => Safe(w)'
    BY <1>18, SafeStep DEF DeleteQueued
  <2>2. /\ taken' = taken /\ draft' = draft /\ saving' = saving
        /\ \A u \in Tabs \ {t} : pass'[u] = pass[u]
    BY <1>18 DEF DeleteQueued, Go, TypeOK
  <2>3. ~HoldsDraft(t)'
    BY <1>18 DEF DeleteQueued, Go, Done, HoldsDraft, TypeOK
  <2> QED BY <2>1, <2>2, <2>3, AccountedKept, HeldKept
<1>19. ASSUME NEW t \in Tabs, ReadMark(t)
      PROVE  Accounted'
  <2> SUFFICES ASSUME "overlap" \notin causes'
               PROVE  /\ \A w \in taken' : Safe(w)'
                      /\ \A w \in draft'.edits : Safe(w)'
                      /\ saving' # None => \A w \in saving'.edits : Safe(w)'
                      /\ \A u \in Tabs : HoldsDraft(u)' => \A w \in pass'[u].held.edits : Safe(w)'
    BY DEF Accounted
  <2>1. "overlap" \notin causes /\ \A w \in Writes : Safe(w) => Safe(w)'
    BY <1>19, SafeStep DEF ReadMark
  <2>2. /\ taken' = taken /\ draft' = draft /\ saving' = saving
        /\ \A u \in Tabs \ {t} : pass'[u] = pass[u]
        /\ pass'[t].held = draft
    BY <1>19 DEF ReadMark, Go, device, TypeOK
  <2> QED BY <2>1, <2>2, AccountedKept, HeldKept
<1>20. ASSUME NEW t \in Tabs, PutDraft(t)
      PROVE  Accounted'
  <2> SUFFICES ASSUME "overlap" \notin causes'
               PROVE  /\ \A w \in taken' : Safe(w)'
                      /\ \A w \in draft'.edits : Safe(w)'
                      /\ saving' # None => \A w \in saving'.edits : Safe(w)'
                      /\ \A u \in Tabs : HoldsDraft(u)' => \A w \in pass'[u].held.edits : Safe(w)'
    BY DEF Accounted
  <2>1. "overlap" \notin causes /\ \A w \in Writes : Safe(w) => Safe(w)'
    BY <1>20, SafeStep DEF PutDraft
  <2>2. HoldsDraft(t) /\ pass[t].held \in Drafts
    BY <1>20 DEF PutDraft, HoldsDraft, Shape
  <2>3. /\ taken' = taken /\ saving' = saving /\ draft'.edits = pass[t].held.edits
        /\ \A u \in Tabs \ {t} : pass'[u] = pass[u]
    BY <1>20, <2>2 DEF PutDraft, Go, Drafts, TypeOK
  <2>4. ~HoldsDraft(t)'
    BY <1>20 DEF PutDraft, Go, Done, HoldsDraft, TypeOK
  <2> QED BY <2>1, <2>2, <2>3, <2>4, AccountedKept, HeldKept
<1>21. ASSUME NEW t \in Tabs, GiveUp(t)
      PROVE  Accounted'
  <2> SUFFICES ASSUME "overlap" \notin causes'
               PROVE  /\ \A w \in taken' : Safe(w)'
                      /\ \A w \in draft'.edits : Safe(w)'
                      /\ saving' # None => \A w \in saving'.edits : Safe(w)'
                      /\ \A u \in Tabs : HoldsDraft(u)' => \A w \in pass'[u].held.edits : Safe(w)'
    BY DEF Accounted
  <2>1. "overlap" \notin causes /\ \A w \in Writes : Safe(w) => Safe(w)'
    BY <1>21, SafeStep DEF GiveUp
  <2>2. /\ taken' = taken /\ draft' = draft /\ saving' = saving
        /\ \A u \in Tabs \ {t} : pass'[u] = pass[u]
    BY <1>21 DEF GiveUp, Go, device, TypeOK
  <2>3. ~HoldsDraft(t)'
    BY <1>21 DEF GiveUp, Go, Done, HoldsDraft, TypeOK
  <2> QED BY <2>1, <2>2, <2>3, AccountedKept, HeldKept
<1>22. ASSUME NEW t \in Tabs, CountRetry(t)
      PROVE  Accounted'
  <2> SUFFICES ASSUME "overlap" \notin causes'
               PROVE  /\ \A w \in taken' : Safe(w)'
                      /\ \A w \in draft'.edits : Safe(w)'
                      /\ saving' # None => \A w \in saving'.edits : Safe(w)'
                      /\ \A u \in Tabs : HoldsDraft(u)' => \A w \in pass'[u].held.edits : Safe(w)'
    BY DEF Accounted
  <2>1. "overlap" \notin causes /\ \A w \in Writes : Safe(w) => Safe(w)'
    BY <1>22, SafeStep DEF CountRetry
  <2>2. /\ taken' = taken /\ draft' = draft /\ saving' = saving
        /\ \A u \in Tabs \ {t} : pass'[u] = pass[u]
    BY <1>22 DEF CountRetry, Go, TypeOK
  <2>3. ~HoldsDraft(t)'
    BY <1>22 DEF CountRetry, Go, Done, HoldsDraft, TypeOK
  <2> QED BY <2>1, <2>2, <2>3, AccountedKept, HeldKept
<1>23. ASSUME NEW t \in Tabs, ServeCall(t)
      PROVE  Accounted'
  <2> SUFFICES ASSUME "overlap" \notin causes'
               PROVE  /\ \A w \in taken' : Safe(w)'
                      /\ \A w \in draft'.edits : Safe(w)'
                      /\ saving' # None => \A w \in saving'.edits : Safe(w)'
                      /\ \A u \in Tabs : HoldsDraft(u)' => \A w \in pass'[u].held.edits : Safe(w)'
    BY DEF Accounted
  <2>1. "overlap" \notin causes /\ \A w \in Writes : Safe(w) => Safe(w)'
    BY <1>23, SafeStep DEF ServeCall
  <2>2. /\ taken' = taken /\ draft' = draft /\ saving' = saving
        /\ \A u \in Tabs \ {t} : pass'[u] = pass[u]
    BY <1>23, ServeFacts DEF ServeCall, device
  <2>3. HoldsDraft(t)' => pass'[t].held.edits = OnServer
    BY <1>23, ServeFacts DEF HoldsDraft
  <2> QED BY <2>1, <2>2, <2>3, AccountedKept, HeldKept
<1>24. CASE GoOnline
  <2> SUFFICES ASSUME "overlap" \notin causes'
               PROVE  /\ \A w \in taken' : Safe(w)'
                      /\ \A w \in draft'.edits : Safe(w)'
                      /\ saving' # None => \A w \in saving'.edits : Safe(w)'
                      /\ \A u \in Tabs : HoldsDraft(u)' => \A w \in pass'[u].held.edits : Safe(w)'
    BY DEF Accounted
  <2>1. "overlap" \notin causes /\ \A w \in Writes : Safe(w) => Safe(w)'
    BY <1>24, SafeStep DEF GoOnline
  <2>2. pass' = pass /\ taken' = taken /\ draft' = draft /\ saving' = saving
    BY <1>24 DEF GoOnline, device
  <2> QED BY <2>1, <2>2, AccountedKept, HeldKept
<1>25. CASE GoOffline
  <2> SUFFICES ASSUME "overlap" \notin causes'
               PROVE  /\ \A w \in taken' : Safe(w)'
                      /\ \A w \in draft'.edits : Safe(w)'
                      /\ saving' # None => \A w \in saving'.edits : Safe(w)'
                      /\ \A u \in Tabs : HoldsDraft(u)' => \A w \in pass'[u].held.edits : Safe(w)'
    BY DEF Accounted
  <2>1. "overlap" \notin causes /\ \A w \in Writes : Safe(w) => Safe(w)'
    BY <1>25, SafeStep DEF GoOffline
  <2>2. pass' = pass /\ taken' = taken /\ draft' = draft /\ saving' = saving
    BY <1>25 DEF GoOffline, device
  <2> QED BY <2>1, <2>2, AccountedKept, HeldKept
<1>26. ASSUME NEW t \in Tabs, CallFails(t)
      PROVE  Accounted'
  <2> SUFFICES ASSUME "overlap" \notin causes'
               PROVE  /\ \A w \in taken' : Safe(w)'
                      /\ \A w \in draft'.edits : Safe(w)'
                      /\ saving' # None => \A w \in saving'.edits : Safe(w)'
                      /\ \A u \in Tabs : HoldsDraft(u)' => \A w \in pass'[u].held.edits : Safe(w)'
    BY DEF Accounted
  <2>1. "overlap" \notin causes /\ \A w \in Writes : Safe(w) => Safe(w)'
    BY <1>26, SafeStep DEF CallFails
  <2>2. /\ taken' = taken /\ draft' = draft /\ saving' = saving
        /\ \A u \in Tabs \ {t} : pass'[u] = pass[u]
    BY <1>26 DEF CallFails, Go, device, TypeOK
  <2>3. ~HoldsDraft(t)'
    BY <1>26 DEF CallFails, Go, HoldsDraft, TypeOK
  <2> QED BY <2>1, <2>2, <2>3, AccountedKept, HeldKept
<1>27. ASSUME NEW t \in Tabs, AnswerLost(t)
      PROVE  Accounted'
  <2> SUFFICES ASSUME "overlap" \notin causes'
               PROVE  /\ \A w \in taken' : Safe(w)'
                      /\ \A w \in draft'.edits : Safe(w)'
                      /\ saving' # None => \A w \in saving'.edits : Safe(w)'
                      /\ \A u \in Tabs : HoldsDraft(u)' => \A w \in pass'[u].held.edits : Safe(w)'
    BY DEF Accounted
  <2>1. "overlap" \notin causes /\ \A w \in Writes : Safe(w) => Safe(w)'
    BY <1>27, SafeStep DEF AnswerLost
  <2>2. /\ taken' = taken /\ draft' = draft /\ saving' = saving
        /\ \A u \in Tabs \ {t} : pass'[u] = pass[u]
    BY <1>27 DEF AnswerLost, Go, device, TypeOK
  <2>3. ~HoldsDraft(t)'
    BY <1>27 DEF AnswerLost, Go, HoldsDraft, TypeOK
  <2> QED BY <2>1, <2>2, <2>3, AccountedKept, HeldKept
<1>28. ASSUME NEW t \in Tabs, TabCloses(t)
      PROVE  Accounted'
  <2> SUFFICES ASSUME "overlap" \notin causes'
               PROVE  /\ \A w \in taken' : Safe(w)'
                      /\ \A w \in draft'.edits : Safe(w)'
                      /\ saving' # None => \A w \in saving'.edits : Safe(w)'
                      /\ \A u \in Tabs : HoldsDraft(u)' => \A w \in pass'[u].held.edits : Safe(w)'
    BY DEF Accounted
  <2>1. "overlap" \notin causes /\ \A w \in Writes : Safe(w) => Safe(w)'
    BY <1>28, SafeStep DEF TabCloses
  <2>2. /\ taken' = taken /\ draft' = draft /\ saving' = None
        /\ \A u \in Tabs \ {t} : pass'[u] = pass[u]
    BY <1>28 DEF TabCloses, Go, TypeOK
  <2>3. ~HoldsDraft(t)'
    BY <1>28 DEF TabCloses, Go, IdlePass, HoldsDraft, TypeOK
  <2> QED BY <2>1, <2>2, <2>3, AccountedKept, HeldKept
<1> QED BY <1>1, <1>2, <1>3, <1>4, <1>5, <1>6, <1>7, <1>8, <1>9, <1>10, <1>11,
       <1>12, <1>13, <1>14, <1>15, <1>16, <1>17, <1>18, <1>19, <1>20, <1>21,
       <1>22, <1>23, <1>24, <1>25, <1>26, <1>27, <1>28 DEF Next, PassStep,
       UserStep, MishapStep

LEMMA Causes ==
  ASSUME [Next]_vars
  PROVE  causes \subseteq causes'
<1>1. CASE UNCHANGED vars
  BY <1>1 DEF vars
<1>2. CASE Next
  BY <1>2 DEF Next, UserStep, PassStep, MishapStep, WriteOffline, EditOffline, StoreDraft,
     ViewDiagnosis, ClockIn, ClockOutTemp, ClockOutOffline, ClockOutOnline, OpenPage,
     TakePhoto, StartSync, NextStage, SendJob, ClockedIn, LogSent, PhotoSent, DeleteQueued,
     ReadMark, PutDraft, GiveUp, CountRetry, ServeCall, GoOnline, GoOffline, CallFails,
     AnswerLost, TabCloses
<1> QED BY <1>1, <1>2

(* The tab that works on a job is the only one that can have one done.      *)
LEMMA SoleDone ==
  ASSUME TypeOK, Shape, OnePass, "overlap" \notin causes, NEW t \in Tabs,
         Syncing(t) \/ pass[t].at # "next" \/ pass[t].todo # {},
         NEW kind, NEW x, DoneWith(kind, x)
  PROVE  pass[t].at = "done" /\ pass[t].job.kind = kind /\ pass[t].job.what = x
BY Others DEF DoneWith

LEMMA WriteKept ==
  ASSUME TypeOK, NEW x \in Writes, WriteOnce(x),
         applied' = applied, asked \subseteq asked',
         queue'.w = queue.w \/ queue'.w \notin Writes,
         DoneWith("queue", x) => DoneWith("queue", x)'
  PROVE  WriteOnce(x)'
BY DEF WriteOnce

LEMMA PhotoKept ==
  ASSUME TypeOK, NEW x \in Photos, PhotoOnce(x),
         uploaded' = uploaded, asked \subseteq asked',
         photo' = photo,
         DoneWith("photo", x) => DoneWith("photo", x)'
  PROVE  PhotoOnce(x)'
BY DEF PhotoOnce

LEMMA WritesOnceStep ==
  ASSUME TypeOK, Shape, OnePass, OwnsQueue, WritesOnce, [Next]_vars
  PROVE  WritesOnce'
<1>1. CASE UNCHANGED vars
  BY <1>1 DEF vars, device, server, WritesOnce, Unharmed, WriteOnce, DoneWith
<1>2. ASSUME NEW w \in Writes, WriteOffline(w)
      PROVE  WritesOnce'
  <2> SUFFICES ASSUME Unharmed', NEW x \in Writes PROVE WriteOnce(x)'
    BY DEF WritesOnce
  <2>1. Unharmed /\ "overlap" \notin causes /\ WriteOnce(x)
    BY Causes DEF Unharmed, WritesOnce
  <2>2. /\ pass' = pass /\ applied' = applied /\ asked' = asked \cup {w} /\ w \notin asked
        /\ queue'.w = queue.w \/ queue'.w = w
    BY <1>2 DEF WriteOffline, Queued, server
  <2>3. DoneWith("queue", x)' <=> DoneWith("queue", x)
    BY <2>2 DEF DoneWith
  <2>4. CASE x = w
    <3>1. applied[x] = 0
      BY <2>1, <2>2, <2>4 DEF WriteOnce, TypeOK
    <3> QED BY <2>2, <2>4, <3>1 DEF WriteOnce
  <2>5. CASE x # w
    BY <2>1, <2>2, <2>3, <2>5 DEF WriteOnce
  <2> QED BY <2>4, <2>5
<1>3. ASSUME NEW w \in Writes, EditOffline(w)
      PROVE  WritesOnce'
  <2> SUFFICES ASSUME Unharmed', NEW x \in Writes PROVE WriteOnce(x)'
    BY DEF WritesOnce
  <2>1. Unharmed /\ "overlap" \notin causes /\ WriteOnce(x)
    BY Causes DEF Unharmed, WritesOnce
  <2>2. /\ pass' = pass /\ applied' = applied /\ asked' = asked \cup {w} /\ w \notin asked
        /\ queue'.w = queue.w \/ queue'.w = w
    BY <1>3 DEF EditOffline, Queued, server
  <2>3. DoneWith("queue", x)' <=> DoneWith("queue", x)
    BY <2>2 DEF DoneWith
  <2>4. CASE x = w
    <3>1. applied[x] = 0
      BY <2>1, <2>2, <2>4 DEF WriteOnce, TypeOK
    <3> QED BY <2>2, <2>4, <3>1 DEF WriteOnce
  <2>5. CASE x # w
    BY <2>1, <2>2, <2>3, <2>5 DEF WriteOnce
  <2> QED BY <2>4, <2>5
<1>4. CASE StoreDraft
  <2> SUFFICES ASSUME Unharmed', NEW x \in Writes PROVE WriteOnce(x)'
    BY DEF WritesOnce
  <2>1. Unharmed /\ "overlap" \notin causes /\ WriteOnce(x)
    BY Causes DEF Unharmed, WritesOnce
  <2>2. /\ pass' = pass /\ queue' = queue /\ applied' = applied /\ asked \subseteq asked'
    BY <1>4 DEF StoreDraft, server
  <2> QED BY <2>1, <2>2, WriteKept DEF DoneWith
<1>5. CASE ViewDiagnosis
  <2> SUFFICES ASSUME Unharmed', NEW x \in Writes PROVE WriteOnce(x)'
    BY DEF WritesOnce
  <2>1. Unharmed /\ "overlap" \notin causes /\ WriteOnce(x)
    BY Causes DEF Unharmed, WritesOnce
  <2>2. /\ pass' = pass /\ queue' = queue /\ applied' = applied /\ asked \subseteq asked'
    BY <1>5 DEF ViewDiagnosis, server
  <2> QED BY <2>1, <2>2, WriteKept DEF DoneWith
<1>6. ASSUME NEW l \in Logs, ClockIn(l)
      PROVE  WritesOnce'
  <2> SUFFICES ASSUME Unharmed', NEW x \in Writes PROVE WriteOnce(x)'
    BY DEF WritesOnce
  <2>1. Unharmed /\ "overlap" \notin causes /\ WriteOnce(x)
    BY Causes DEF Unharmed, WritesOnce
  <2>2. /\ pass' = pass /\ queue' = queue /\ applied' = applied /\ asked \subseteq asked'
    BY <1>6 DEF ClockIn, server
  <2> QED BY <2>1, <2>2, WriteKept DEF DoneWith
<1>7. CASE ClockOutTemp
  <2> SUFFICES ASSUME Unharmed', NEW x \in Writes PROVE WriteOnce(x)'
    BY DEF WritesOnce
  <2>1. Unharmed /\ "overlap" \notin causes /\ WriteOnce(x)
    BY Causes DEF Unharmed, WritesOnce
  <2>2. /\ pass' = pass /\ queue' = queue /\ applied' = applied /\ asked \subseteq asked'
    BY <1>7 DEF ClockOutTemp, server
  <2> QED BY <2>1, <2>2, WriteKept DEF DoneWith
<1>8. CASE ClockOutOffline
  <2> SUFFICES ASSUME Unharmed', NEW x \in Writes PROVE WriteOnce(x)'
    BY DEF WritesOnce
  <2>1. Unharmed /\ "overlap" \notin causes /\ WriteOnce(x)
    BY Causes DEF Unharmed, WritesOnce
  <2>2. /\ pass' = pass /\ queue' = queue /\ applied' = applied /\ asked \subseteq asked'
    BY <1>8 DEF ClockOutOffline, server
  <2> QED BY <2>1, <2>2, WriteKept DEF DoneWith
<1>9. CASE ClockOutOnline
  <2> SUFFICES ASSUME Unharmed', NEW x \in Writes PROVE WriteOnce(x)'
    BY DEF WritesOnce
  <2>1. Unharmed /\ "overlap" \notin causes /\ WriteOnce(x)
    BY Causes DEF Unharmed, WritesOnce
  <2>2. /\ pass' = pass /\ queue' = queue /\ applied' = applied /\ asked \subseteq asked'
    BY <1>9 DEF ClockOutOnline
  <2> QED BY <2>1, <2>2, WriteKept DEF DoneWith
<1>10. CASE OpenPage
  <2> SUFFICES ASSUME Unharmed', NEW x \in Writes PROVE WriteOnce(x)'
    BY DEF WritesOnce
  <2>1. Unharmed /\ "overlap" \notin causes /\ WriteOnce(x)
    BY Causes DEF Unharmed, WritesOnce
  <2>2. /\ pass' = pass /\ queue' = queue /\ applied' = applied /\ asked \subseteq asked'
    BY <1>10 DEF OpenPage, server
  <2> QED BY <2>1, <2>2, WriteKept DEF DoneWith
<1>11. ASSUME NEW f \in Photos, TakePhoto(f)
      PROVE  WritesOnce'
  <2> SUFFICES ASSUME Unharmed', NEW x \in Writes PROVE WriteOnce(x)'
    BY DEF WritesOnce
  <2>1. Unharmed /\ "overlap" \notin causes /\ WriteOnce(x)
    BY Causes DEF Unharmed, WritesOnce
  <2>2. /\ pass' = pass /\ queue' = queue /\ applied' = applied /\ asked \subseteq asked'
    BY <1>11 DEF TakePhoto, server
  <2> QED BY <2>1, <2>2, WriteKept DEF DoneWith
<1>12. ASSUME NEW t \in Tabs, StartSync(t)
      PROVE  WritesOnce'
  <2> SUFFICES ASSUME Unharmed', NEW x \in Writes PROVE WriteOnce(x)'
    BY DEF WritesOnce
  <2>1. Unharmed /\ "overlap" \notin causes /\ WriteOnce(x)
    BY Causes DEF Unharmed, WritesOnce
  <2>2. applied' = applied /\ asked' = asked /\ queue' = queue
    BY <1>12 DEF StartSync, device, server
  <2>3. \A u \in Tabs : ~Syncing(u)
    BY <1>12 DEF StartSync, Unharmed
  <2>4. ~DoneWith("queue", x)
    BY <2>3 DEF DoneWith, Shape
  <2> QED BY <2>1, <2>2, <2>4, WriteKept
<1>13. ASSUME NEW t \in Tabs, NextStage(t)
      PROVE  WritesOnce'
  <2> SUFFICES ASSUME Unharmed', NEW x \in Writes PROVE WriteOnce(x)'
    BY DEF WritesOnce
  <2>1. Unharmed /\ "overlap" \notin causes /\ WriteOnce(x)
    BY Causes DEF Unharmed, WritesOnce
  <2>2. /\ applied' = applied /\ asked' = asked
        /\ queue'.w = queue.w \/ queue'.w \notin Writes
    BY <1>13 DEF NextStage, device, server
  <2>3. ~DoneWith("queue", x)
    BY <1>13, <2>1, SoleDone DEF NextStage
  <2> QED BY <2>1, <2>2, <2>3, WriteKept
<1>14. ASSUME NEW t \in Tabs, NEW job \in pass[t].todo, SendJob(t, job)
      PROVE  WritesOnce'
  <2> SUFFICES ASSUME Unharmed', NEW x \in Writes PROVE WriteOnce(x)'
    BY DEF WritesOnce
  <2>1. Unharmed /\ "overlap" \notin causes /\ WriteOnce(x)
    BY Causes DEF Unharmed, WritesOnce
  <2>2. applied' = applied /\ asked' = asked /\ Owns(t)
    BY <1>14, <2>1 DEF SendJob, server, OwnsQueue
  <2>3. queue'.w = queue.w \/ queue'.w \notin Writes
    <3>1. (IF online THEN queue' = queue ELSE Intercept(job)) /\ job \in Jobs
      BY <1>14, SendFacts
    <3>2. job.kind = "queue" => queue.w # None
      BY <2>2, <3>1, QueueJob DEF Owns
    <3> QED BY <3>1, <3>2, InterceptKeeps, OfflineAssumption DEF Copies
  <2>4. ~DoneWith("queue", x)
    BY <1>14, <2>1, SoleDone DEF SendJob
  <2> QED BY <2>1, <2>2, <2>3, <2>4, WriteKept
<1>15. ASSUME NEW t \in Tabs, ClockedIn(t)
      PROVE  WritesOnce'
  <2> SUFFICES ASSUME Unharmed', NEW x \in Writes PROVE WriteOnce(x)'
    BY DEF WritesOnce
  <2>1. Unharmed /\ "overlap" \notin causes /\ WriteOnce(x)
    BY Causes DEF Unharmed, WritesOnce
  <2>2. applied' = applied /\ asked' = asked
    BY <1>15 DEF ClockedIn, server
  <2>3. queue'.w = queue.w \/ queue'.w \notin Writes
    BY <1>15, ClockedInFacts, InterceptKeeps, OfflineAssumption DEF Copies
  <2>4. ~DoneWith("queue", x)
    BY <1>15, <2>1, SoleDone DEF ClockedIn
  <2> QED BY <2>1, <2>2, <2>3, <2>4, WriteKept
<1>16. ASSUME NEW t \in Tabs, LogSent(t)
      PROVE  WritesOnce'
  <2> SUFFICES ASSUME Unharmed', NEW x \in Writes PROVE WriteOnce(x)'
    BY DEF WritesOnce
  <2>1. Unharmed /\ "overlap" \notin causes /\ WriteOnce(x)
    BY Causes DEF Unharmed, WritesOnce
  <2>2. /\ applied' = applied /\ asked' = asked
        /\ queue'.w = queue.w \/ queue'.w \notin Writes
    BY <1>16 DEF LogSent, server
  <2>3. ~DoneWith("queue", x)
    BY <1>16, <2>1, SoleDone DEF LogSent
  <2> QED BY <2>1, <2>2, <2>3, WriteKept
<1>17. ASSUME NEW t \in Tabs, PhotoSent(t)
      PROVE  WritesOnce'
  <2> SUFFICES ASSUME Unharmed', NEW x \in Writes PROVE WriteOnce(x)'
    BY DEF WritesOnce
  <2>1. Unharmed /\ "overlap" \notin causes /\ WriteOnce(x)
    BY Causes DEF Unharmed, WritesOnce
  <2>2. /\ applied' = applied /\ asked' = asked
        /\ queue'.w = queue.w \/ queue'.w \notin Writes
    BY <1>17 DEF PhotoSent, server
  <2>3. ~DoneWith("queue", x)
    BY <1>17, <2>1, SoleDone DEF PhotoSent
  <2> QED BY <2>1, <2>2, <2>3, WriteKept
<1>18. ASSUME NEW t \in Tabs, DeleteQueued(t)
      PROVE  WritesOnce'
  <2> SUFFICES ASSUME Unharmed', NEW x \in Writes PROVE WriteOnce(x)'
    BY DEF WritesOnce
  <2>1. Unharmed /\ "overlap" \notin causes /\ WriteOnce(x)
    BY Causes DEF Unharmed, WritesOnce
  <2>2. /\ applied' = applied /\ asked' = asked /\ queue'.w = None
    BY <1>18 DEF DeleteQueued, server, NoEntry
  <2> QED BY <2>1, <2>2, OfflineAssumption DEF WriteOnce
<1>19. ASSUME NEW t \in Tabs, ReadMark(t)
      PROVE  WritesOnce'
  <2> SUFFICES ASSUME Unharmed', NEW x \in Writes PROVE WriteOnce(x)'
    BY DEF WritesOnce
  <2>1. Unharmed /\ "overlap" \notin causes /\ WriteOnce(x)
    BY Causes DEF Unharmed, WritesOnce
  <2>2. /\ applied' = applied /\ asked' = asked
        /\ queue'.w = queue.w \/ queue'.w \notin Writes
    BY <1>19 DEF ReadMark, device, server
  <2>3. ~DoneWith("queue", x)
    BY <1>19, <2>1, SoleDone DEF ReadMark
  <2> QED BY <2>1, <2>2, <2>3, WriteKept
<1>20. ASSUME NEW t \in Tabs, PutDraft(t)
      PROVE  WritesOnce'
  <2> SUFFICES ASSUME Unharmed', NEW x \in Writes PROVE WriteOnce(x)'
    BY DEF WritesOnce
  <2>1. Unharmed /\ "overlap" \notin causes /\ WriteOnce(x)
    BY Causes DEF Unharmed, WritesOnce
  <2>2. /\ applied' = applied /\ asked' = asked
        /\ queue'.w = queue.w \/ queue'.w \notin Writes
    BY <1>20 DEF PutDraft, server
  <2>3. ~DoneWith("queue", x)
    BY <1>20, <2>1, SoleDone DEF PutDraft
  <2> QED BY <2>1, <2>2, <2>3, WriteKept
<1>21. ASSUME NEW t \in Tabs, GiveUp(t)
      PROVE  WritesOnce'
  <2> SUFFICES ASSUME Unharmed', NEW x \in Writes PROVE WriteOnce(x)'
    BY DEF WritesOnce
  <2>1. Unharmed /\ "overlap" \notin causes /\ WriteOnce(x)
    BY Causes DEF Unharmed, WritesOnce
  <2>2. /\ applied' = applied /\ asked' = asked
        /\ queue'.w = queue.w \/ queue'.w \notin Writes
    BY <1>21 DEF GiveUp, device, server
  <2>3. ~DoneWith("queue", x)
    BY <1>21, <2>1, SoleDone DEF GiveUp
  <2> QED BY <2>1, <2>2, <2>3, WriteKept
<1>22. ASSUME NEW t \in Tabs, CountRetry(t)
      PROVE  WritesOnce'
  <2> SUFFICES ASSUME Unharmed', NEW x \in Writes PROVE WriteOnce(x)'
    BY DEF WritesOnce
  <2>1. Unharmed /\ "overlap" \notin causes /\ WriteOnce(x)
    BY Causes DEF Unharmed, WritesOnce
  <2>2. /\ Owns(t) /\ pass[t].held \in Entries /\ applied' = applied /\ asked' = asked
        /\ pass[t].held.w = queue.w
    BY <1>22, <2>1 DEF CountRetry, server, OwnsQueue, Owns, Shape
  <2>3. queue'.w = queue.w
    BY <1>22, <2>2 DEF CountRetry, Entries
  <2>4. ~DoneWith("queue", x)
    BY <1>22, <2>1, SoleDone DEF CountRetry
  <2> QED BY <2>1, <2>2, <2>3, <2>4, WriteKept
<1>23. ASSUME NEW t \in Tabs, ServeCall(t)
      PROVE  WritesOnce'
  <2> SUFFICES ASSUME Unharmed', NEW x \in Writes PROVE WriteOnce(x)'
    BY DEF WritesOnce
  <2>1. Unharmed /\ "overlap" \notin causes /\ WriteOnce(x)
    BY Causes DEF Unharmed, WritesOnce
  <2>2. queue' = queue /\ asked' = asked /\ pass[t].at = "sent" /\ Owns(t) /\ pass[t].job \in Jobs
    BY <1>23, <2>1 DEF ServeCall, device, OwnsQueue, Shape
  <2>3. ~DoneWith("queue", x)
    BY <2>1, <2>2, SoleDone
  <2>4. CASE pass'[t].at = "done" /\ pass[t].job.kind = "queue" /\ pass[t].job.what = x
    <3>1. applied'[x] = applied[x] + 1 /\ DoneWith("queue", x)'
      BY <1>23, <2>2, <2>4, ServeFacts, CarryOutFacts DEF DoneWith
    <3>2. queue.w = x /\ applied[x] = 0
      BY <2>1, <2>2, <2>3, <2>4 DEF Owns, WriteOnce, TypeOK
    <3> QED BY <2>1, <2>2, <3>1, <3>2 DEF WriteOnce
  <2>5. CASE ~(pass'[t].at = "done" /\ pass[t].job.kind = "queue" /\ pass[t].job.what = x)
    <3>1. applied'[x] = applied[x]
      BY <1>23, <2>2, <2>5, ServeFacts, CarryOutFacts DEF server
    <3> QED BY <2>1, <2>2, <2>3, <3>1 DEF WriteOnce
  <2> QED BY <2>4, <2>5
<1>24. CASE GoOnline
  <2> SUFFICES ASSUME Unharmed', NEW x \in Writes PROVE WriteOnce(x)'
    BY DEF WritesOnce
  <2>1. Unharmed /\ "overlap" \notin causes /\ WriteOnce(x)
    BY Causes DEF Unharmed, WritesOnce
  <2>2. /\ pass' = pass /\ queue' = queue /\ applied' = applied /\ asked \subseteq asked'
    BY <1>24 DEF GoOnline, device, server
  <2> QED BY <2>1, <2>2, WriteKept DEF DoneWith
<1>25. CASE GoOffline
  <2> SUFFICES ASSUME Unharmed', NEW x \in Writes PROVE WriteOnce(x)'
    BY DEF WritesOnce
  <2>1. Unharmed /\ "overlap" \notin causes /\ WriteOnce(x)
    BY Causes DEF Unharmed, WritesOnce
  <2>2. /\ pass' = pass /\ queue' = queue /\ applied' = applied /\ asked \subseteq asked'
    BY <1>25 DEF GoOffline, device, server
  <2> QED BY <2>1, <2>2, WriteKept DEF DoneWith
<1>26. ASSUME NEW t \in Tabs, CallFails(t)
      PROVE  WritesOnce'
  <2> SUFFICES ASSUME Unharmed', NEW x \in Writes PROVE WriteOnce(x)'
    BY DEF WritesOnce
  <2>1. Unharmed /\ "overlap" \notin causes /\ WriteOnce(x)
    BY Causes DEF Unharmed, WritesOnce
  <2>2. /\ applied' = applied /\ asked' = asked
        /\ queue'.w = queue.w \/ queue'.w \notin Writes
    BY <1>26 DEF CallFails, device, server
  <2>3. ~DoneWith("queue", x)
    BY <1>26, <2>1, SoleDone DEF CallFails
  <2> QED BY <2>1, <2>2, <2>3, WriteKept
<1>27. ASSUME NEW t \in Tabs, AnswerLost(t)
      PROVE  WritesOnce'
  BY <1>27 DEF AnswerLost, WritesOnce, Unharmed
<1>28. ASSUME NEW t \in Tabs, TabCloses(t)
      PROVE  WritesOnce'
  BY <1>28 DEF TabCloses, WritesOnce, Unharmed
<1> QED BY <1>1, <1>2, <1>3, <1>4, <1>5, <1>6, <1>7, <1>8, <1>9, <1>10, <1>11,
       <1>12, <1>13, <1>14, <1>15, <1>16, <1>17, <1>18, <1>19, <1>20, <1>21,
       <1>22, <1>23, <1>24, <1>25, <1>26, <1>27, <1>28 DEF Next, PassStep,
       UserStep, MishapStep

LEMMA PhotoJobsKept ==
  ASSUME TypeOK, Shape, NEW u \in Tabs, PhotoJobs(u), pass'[u] = pass[u],
         \A f \in Photos : photo[f] = "unsynced" => photo'[f] = "unsynced"
  PROVE  PhotoJobs(u)'
<1>1. pass[u].todo \subseteq Jobs /\ (pass[u].at # "next" => pass[u].job \in Jobs)
  BY DEF TypeOK, Shape
<1>2. \A j \in Jobs : j.kind = "photo" => j.what \in Photos
  BY DEF Jobs
<1> QED BY <1>1, <1>2 DEF PhotoJobs

LEMMA PhotoJobsIdle ==
  ASSUME NEW u \in Tabs, pass'[u] = pass[u], pass[u].at = "next", pass[u].todo = {}
  PROVE  PhotoJobs(u)'
BY DEF PhotoJobs

LEMMA PhotosOnceStep ==
  ASSUME TypeOK, Shape, OnePass, PhotosOnce, [Next]_vars
  PROVE  PhotosOnce'
<1>1. CASE UNCHANGED vars
  BY <1>1 DEF vars, device, server, PhotosOnce, Unharmed, PhotoOnce,
     PhotoJobs, DoneWith
<1>2. ASSUME NEW w \in Writes, WriteOffline(w)
      PROVE  PhotosOnce'
  <2> SUFFICES ASSUME Unharmed'
               PROVE  /\ \A x \in Photos : PhotoOnce(x)'
                      /\ \A u \in Tabs : PhotoJobs(u)'
    BY DEF PhotosOnce
  <2>1. /\ Unharmed /\ "overlap" \notin causes
        /\ \A x \in Photos : PhotoOnce(x)
        /\ \A u \in Tabs : PhotoJobs(u)
    BY Causes DEF Unharmed, PhotosOnce
  <2>2. /\ pass' = pass /\ photo' = photo /\ uploaded' = uploaded /\ asked \subseteq asked'
    BY <1>2 DEF WriteOffline, server
  <2> QED BY <2>1, <2>2, PhotoKept, PhotoJobsKept DEF DoneWith
<1>3. ASSUME NEW w \in Writes, EditOffline(w)
      PROVE  PhotosOnce'
  <2> SUFFICES ASSUME Unharmed'
               PROVE  /\ \A x \in Photos : PhotoOnce(x)'
                      /\ \A u \in Tabs : PhotoJobs(u)'
    BY DEF PhotosOnce
  <2>1. /\ Unharmed /\ "overlap" \notin causes
        /\ \A x \in Photos : PhotoOnce(x)
        /\ \A u \in Tabs : PhotoJobs(u)
    BY Causes DEF Unharmed, PhotosOnce
  <2>2. /\ pass' = pass /\ photo' = photo /\ uploaded' = uploaded /\ asked \subseteq asked'
    BY <1>3 DEF EditOffline, server
  <2> QED BY <2>1, <2>2, PhotoKept, PhotoJobsKept DEF DoneWith
<1>4. CASE StoreDraft
  <2> SUFFICES ASSUME Unharmed'
               PROVE  /\ \A x \in Photos : PhotoOnce(x)'
                      /\ \A u \in Tabs : PhotoJobs(u)'
    BY DEF PhotosOnce
  <2>1. /\ Unharmed /\ "overlap" \notin causes
        /\ \A x \in Photos : PhotoOnce(x)
        /\ \A u \in Tabs : PhotoJobs(u)
    BY Causes DEF Unharmed, PhotosOnce
  <2>2. /\ pass' = pass /\ photo' = photo /\ uploaded' = uploaded /\ asked \subseteq asked'
    BY <1>4 DEF StoreDraft, server
  <2> QED BY <2>1, <2>2, PhotoKept, PhotoJobsKept DEF DoneWith
<1>5. CASE ViewDiagnosis
  <2> SUFFICES ASSUME Unharmed'
               PROVE  /\ \A x \in Photos : PhotoOnce(x)'
                      /\ \A u \in Tabs : PhotoJobs(u)'
    BY DEF PhotosOnce
  <2>1. /\ Unharmed /\ "overlap" \notin causes
        /\ \A x \in Photos : PhotoOnce(x)
        /\ \A u \in Tabs : PhotoJobs(u)
    BY Causes DEF Unharmed, PhotosOnce
  <2>2. /\ pass' = pass /\ photo' = photo /\ uploaded' = uploaded /\ asked \subseteq asked'
    BY <1>5 DEF ViewDiagnosis, server
  <2> QED BY <2>1, <2>2, PhotoKept, PhotoJobsKept DEF DoneWith
<1>6. ASSUME NEW l \in Logs, ClockIn(l)
      PROVE  PhotosOnce'
  <2> SUFFICES ASSUME Unharmed'
               PROVE  /\ \A x \in Photos : PhotoOnce(x)'
                      /\ \A u \in Tabs : PhotoJobs(u)'
    BY DEF PhotosOnce
  <2>1. /\ Unharmed /\ "overlap" \notin causes
        /\ \A x \in Photos : PhotoOnce(x)
        /\ \A u \in Tabs : PhotoJobs(u)
    BY Causes DEF Unharmed, PhotosOnce
  <2>2. /\ pass' = pass /\ photo' = photo /\ uploaded' = uploaded /\ asked \subseteq asked'
    BY <1>6 DEF ClockIn, server
  <2> QED BY <2>1, <2>2, PhotoKept, PhotoJobsKept DEF DoneWith
<1>7. CASE ClockOutTemp
  <2> SUFFICES ASSUME Unharmed'
               PROVE  /\ \A x \in Photos : PhotoOnce(x)'
                      /\ \A u \in Tabs : PhotoJobs(u)'
    BY DEF PhotosOnce
  <2>1. /\ Unharmed /\ "overlap" \notin causes
        /\ \A x \in Photos : PhotoOnce(x)
        /\ \A u \in Tabs : PhotoJobs(u)
    BY Causes DEF Unharmed, PhotosOnce
  <2>2. /\ pass' = pass /\ photo' = photo /\ uploaded' = uploaded /\ asked \subseteq asked'
    BY <1>7 DEF ClockOutTemp, server
  <2> QED BY <2>1, <2>2, PhotoKept, PhotoJobsKept DEF DoneWith
<1>8. CASE ClockOutOffline
  <2> SUFFICES ASSUME Unharmed'
               PROVE  /\ \A x \in Photos : PhotoOnce(x)'
                      /\ \A u \in Tabs : PhotoJobs(u)'
    BY DEF PhotosOnce
  <2>1. /\ Unharmed /\ "overlap" \notin causes
        /\ \A x \in Photos : PhotoOnce(x)
        /\ \A u \in Tabs : PhotoJobs(u)
    BY Causes DEF Unharmed, PhotosOnce
  <2>2. /\ pass' = pass /\ photo' = photo /\ uploaded' = uploaded /\ asked \subseteq asked'
    BY <1>8 DEF ClockOutOffline, server
  <2> QED BY <2>1, <2>2, PhotoKept, PhotoJobsKept DEF DoneWith
<1>9. CASE ClockOutOnline
  <2> SUFFICES ASSUME Unharmed'
               PROVE  /\ \A x \in Photos : PhotoOnce(x)'
                      /\ \A u \in Tabs : PhotoJobs(u)'
    BY DEF PhotosOnce
  <2>1. /\ Unharmed /\ "overlap" \notin causes
        /\ \A x \in Photos : PhotoOnce(x)
        /\ \A u \in Tabs : PhotoJobs(u)
    BY Causes DEF Unharmed, PhotosOnce
  <2>2. /\ pass' = pass /\ photo' = photo /\ uploaded' = uploaded /\ asked \subseteq asked'
    BY <1>9 DEF ClockOutOnline
  <2> QED BY <2>1, <2>2, PhotoKept, PhotoJobsKept DEF DoneWith
<1>10. CASE OpenPage
  <2> SUFFICES ASSUME Unharmed'
               PROVE  /\ \A x \in Photos : PhotoOnce(x)'
                      /\ \A u \in Tabs : PhotoJobs(u)'
    BY DEF PhotosOnce
  <2>1. /\ Unharmed /\ "overlap" \notin causes
        /\ \A x \in Photos : PhotoOnce(x)
        /\ \A u \in Tabs : PhotoJobs(u)
    BY Causes DEF Unharmed, PhotosOnce
  <2>2. /\ pass' = pass /\ photo' = photo /\ uploaded' = uploaded /\ asked \subseteq asked'
    BY <1>10 DEF OpenPage, server
  <2> QED BY <2>1, <2>2, PhotoKept, PhotoJobsKept DEF DoneWith
<1>11. ASSUME NEW f \in Photos, TakePhoto(f)
      PROVE  PhotosOnce'
  <2> SUFFICES ASSUME Unharmed'
               PROVE  /\ \A x \in Photos : PhotoOnce(x)'
                      /\ \A u \in Tabs : PhotoJobs(u)'
    BY DEF PhotosOnce
  <2>1. /\ Unharmed /\ "overlap" \notin causes
        /\ \A x \in Photos : PhotoOnce(x)
        /\ \A u \in Tabs : PhotoJobs(u)
    BY Causes DEF Unharmed, PhotosOnce
  <2>2. /\ pass' = pass /\ uploaded' = uploaded /\ asked' = asked \cup {f} /\ f \notin asked
        /\ photo' = [photo EXCEPT ![f] = "unsynced"]
    BY <1>11 DEF TakePhoto, server
  <2>3. \A g \in Photos : photo'[g] = IF g = f THEN "unsynced" ELSE photo[g]
    BY <2>2 DEF TypeOK
  <2>4. uploaded[f] = 0
    BY <2>1, <2>2 DEF PhotoOnce, TypeOK
  <2>5. ASSUME NEW x \in Photos PROVE PhotoOnce(x)'
    BY <2>1, <2>2, <2>3, <2>4 DEF PhotoOnce, DoneWith
  <2> QED BY <2>1, <2>2, <2>3, <2>5, PhotoJobsKept
<1>12. ASSUME NEW t \in Tabs, StartSync(t)
      PROVE  PhotosOnce'
  <2> SUFFICES ASSUME Unharmed'
               PROVE  /\ \A x \in Photos : PhotoOnce(x)'
                      /\ \A u \in Tabs : PhotoJobs(u)'
    BY DEF PhotosOnce
  <2>1. /\ Unharmed /\ "overlap" \notin causes
        /\ \A x \in Photos : PhotoOnce(x)
        /\ \A u \in Tabs : PhotoJobs(u)
    BY Causes DEF Unharmed, PhotosOnce
  <2>2. /\ photo' = photo /\ uploaded' = uploaded /\ asked' = asked
        /\ \A u \in Tabs \ {t} : pass'[u] = pass[u]
        /\ \A u \in Tabs : ~Syncing(u)
    BY <1>12 DEF StartSync, Go, device, server, Unharmed, TypeOK
  <2>3. \A x \in Photos : ~DoneWith("photo", x)
    BY <2>2 DEF DoneWith, Shape
  <2>4. \A x \in Photos : PhotoOnce(x)'
    BY <2>1, <2>2, <2>3, PhotoKept
  <2>5. pass'[t].todo = Todo("logs") /\ pass'[t].at = "next"
    BY <1>12 DEF StartSync, Go, IdlePass, TypeOK
  <2>6. PhotoJobs(t)'
    BY <2>2, <2>5, TodoFacts DEF PhotoJobs, Stages
  <2> QED BY <2>1, <2>2, <2>4, <2>6, PhotoJobsKept
<1>13. ASSUME NEW t \in Tabs, NextStage(t)
      PROVE  PhotosOnce'
  <2> SUFFICES ASSUME Unharmed'
               PROVE  /\ \A x \in Photos : PhotoOnce(x)'
                      /\ \A u \in Tabs : PhotoJobs(u)'
    BY DEF PhotosOnce
  <2>1. /\ Unharmed /\ "overlap" \notin causes
        /\ \A x \in Photos : PhotoOnce(x)
        /\ \A u \in Tabs : PhotoJobs(u)
    BY Causes DEF Unharmed, PhotosOnce
  <2>2. /\ photo' = photo /\ uploaded' = uploaded /\ asked' = asked
        /\ \A u \in Tabs \ {t} : pass'[u] = pass[u]
    BY <1>13, StageFacts DEF NextStage, device, server
  <2>3. \A x \in Photos : ~DoneWith("photo", x)
    BY <1>13, <2>1, SoleDone DEF NextStage
  <2>4. \A x \in Photos : PhotoOnce(x)'
    BY <2>1, <2>2, <2>3, PhotoKept
  <2>5. PhotoJobs(t)'
    <3>1. After(pass[t].stage) \in Stages
      BY AfterType DEF TypeOK
    <3>2. pass'[t].todo = Todo(After(pass[t].stage)) /\ pass'[t].at = "next"
      BY <1>13, StageFacts DEF NextStage
    <3> QED BY <2>2, <3>1, <3>2, TodoFacts DEF PhotoJobs
  <2> QED BY <2>1, <2>2, <2>4, <2>5, PhotoJobsKept
<1>14. ASSUME NEW t \in Tabs, NEW job \in pass[t].todo, SendJob(t, job)
      PROVE  PhotosOnce'
  <2> SUFFICES ASSUME Unharmed'
               PROVE  /\ \A x \in Photos : PhotoOnce(x)'
                      /\ \A u \in Tabs : PhotoJobs(u)'
    BY DEF PhotosOnce
  <2>1. /\ Unharmed /\ "overlap" \notin causes
        /\ \A x \in Photos : PhotoOnce(x)
        /\ \A u \in Tabs : PhotoJobs(u)
    BY Causes DEF Unharmed, PhotosOnce
  <2>2. /\ photo' = photo /\ uploaded' = uploaded /\ asked' = asked
        /\ \A u \in Tabs \ {t} : pass'[u] = pass[u]
    BY <1>14, SendFacts DEF SendJob, server
  <2>3. \A x \in Photos : ~DoneWith("photo", x)
    BY <1>14, <2>1, SoleDone DEF SendJob
  <2>4. \A x \in Photos : PhotoOnce(x)'
    BY <2>1, <2>2, <2>3, PhotoKept
  <2>5. PhotoJobs(t)'
    BY <1>14, <2>1, <2>2, SendFacts DEF PhotoJobs
  <2> QED BY <2>1, <2>2, <2>4, <2>5, PhotoJobsKept
<1>15. ASSUME NEW t \in Tabs, ClockedIn(t)
      PROVE  PhotosOnce'
  <2> SUFFICES ASSUME Unharmed'
               PROVE  /\ \A x \in Photos : PhotoOnce(x)'
                      /\ \A u \in Tabs : PhotoJobs(u)'
    BY DEF PhotosOnce
  <2>1. /\ Unharmed /\ "overlap" \notin causes
        /\ \A x \in Photos : PhotoOnce(x)
        /\ \A u \in Tabs : PhotoJobs(u)
    BY Causes DEF Unharmed, PhotosOnce
  <2>2. /\ photo' = photo /\ uploaded' = uploaded /\ asked' = asked
        /\ \A u \in Tabs \ {t} : pass'[u] = pass[u]
    BY <1>15, ClockedInFacts DEF ClockedIn, server
  <2>3. \A x \in Photos : ~DoneWith("photo", x)
    BY <1>15, <2>1, SoleDone DEF ClockedIn
  <2>4. \A x \in Photos : PhotoOnce(x)'
    BY <2>1, <2>2, <2>3, PhotoKept
  <2>5. PhotoJobs(t)'
    BY <1>15, <2>1, <2>2, ClockedInFacts DEF PhotoJobs
  <2> QED BY <2>1, <2>2, <2>4, <2>5, PhotoJobsKept
<1>16. ASSUME NEW t \in Tabs, LogSent(t)
      PROVE  PhotosOnce'
  <2> SUFFICES ASSUME Unharmed'
               PROVE  /\ \A x \in Photos : PhotoOnce(x)'
                      /\ \A u \in Tabs : PhotoJobs(u)'
    BY DEF PhotosOnce
  <2>1. /\ Unharmed /\ "overlap" \notin causes
        /\ \A x \in Photos : PhotoOnce(x)
        /\ \A u \in Tabs : PhotoJobs(u)
    BY Causes DEF Unharmed, PhotosOnce
  <2>2. /\ photo' = photo /\ uploaded' = uploaded /\ asked' = asked
        /\ \A u \in Tabs \ {t} : pass'[u] = pass[u]
    BY <1>16 DEF LogSent, Go, server, TypeOK
  <2>3. \A x \in Photos : ~DoneWith("photo", x)
    BY <1>16, <2>1, SoleDone DEF LogSent
  <2>4. \A x \in Photos : PhotoOnce(x)'
    BY <2>1, <2>2, <2>3, PhotoKept
  <2>5. PhotoJobs(t)'
    BY <1>16, <2>1, <2>2 DEF PhotoJobs, LogSent, Go, Done, TypeOK
  <2> QED BY <2>1, <2>2, <2>4, <2>5, PhotoJobsKept
<1>17. ASSUME NEW t \in Tabs, PhotoSent(t)
      PROVE  PhotosOnce'
  <2> SUFFICES ASSUME Unharmed'
               PROVE  /\ \A x \in Photos : PhotoOnce(x)'
                      /\ \A u \in Tabs : PhotoJobs(u)'
    BY DEF PhotosOnce
  <2>1. /\ Unharmed /\ "overlap" \notin causes
        /\ \A x \in Photos : PhotoOnce(x)
        /\ \A u \in Tabs : PhotoJobs(u)
    BY Causes DEF Unharmed, PhotosOnce
  <2> DEFINE f == pass[t].job.what
  <2>2. /\ pass[t].at = "done" /\ pass[t].job.kind = "photo" /\ pass[t].job \in Jobs
        /\ photo' = [photo EXCEPT ![f] = "synced"]
        /\ uploaded' = uploaded /\ asked' = asked
        /\ \A u \in Tabs \ {t} : pass'[u] = pass[u]
        /\ pass'[t].todo = pass[t].todo /\ pass'[t].at = "next"
    BY <1>17 DEF PhotoSent, Go, Done, server, Shape, TypeOK
  <2>3. f \in Photos
    BY <2>2 DEF Jobs
  <2>4. \A g \in Photos : photo'[g] = IF g = f THEN "synced" ELSE photo[g]
    BY <2>2 DEF TypeOK
  <2>5. photo[f] = "unsynced" /\ pass[t].job \notin pass[t].todo
    BY <2>1, <2>2 DEF PhotoJobs
  <2>6. ASSUME NEW x \in Photos PROVE PhotoOnce(x)'
    <3>1. CASE x = f
      BY <2>1, <2>2, <2>4, <2>5, <3>1 DEF PhotoOnce
    <3>2. CASE x # f
      <4>1. ~DoneWith("photo", x)
        BY <2>1, <2>2, <3>2, SoleDone
      <4> QED BY <2>1, <2>2, <2>4, <3>2, <4>1 DEF PhotoOnce
    <3> QED BY <3>1, <3>2
  <2>7. PhotoJobs(t)'
    <3>1. ASSUME NEW j \in pass[t].todo, j.kind = "photo" PROVE photo'[j.what] = "unsynced"
      <4>1. j \in Jobs /\ j.what # f
        BY <2>2, <2>5, <3>1, SameJob DEF TypeOK
      <4>2. j.what \in Photos /\ photo[j.what] = "unsynced"
        BY <2>1, <3>1, <4>1 DEF PhotoJobs, Jobs
      <4> QED BY <2>4, <4>1, <4>2
    <3> QED BY <2>2, <3>1 DEF PhotoJobs
  <2>8. ASSUME NEW u \in Tabs \ {t} PROVE PhotoJobs(u)'
    BY <2>1, <2>2, <2>8, Others, PhotoJobsIdle
  <2> QED BY <2>6, <2>7, <2>8
<1>18. ASSUME NEW t \in Tabs, DeleteQueued(t)
      PROVE  PhotosOnce'
  <2> SUFFICES ASSUME Unharmed'
               PROVE  /\ \A x \in Photos : PhotoOnce(x)'
                      /\ \A u \in Tabs : PhotoJobs(u)'
    BY DEF PhotosOnce
  <2>1. /\ Unharmed /\ "overlap" \notin causes
        /\ \A x \in Photos : PhotoOnce(x)
        /\ \A u \in Tabs : PhotoJobs(u)
    BY Causes DEF Unharmed, PhotosOnce
  <2>2. /\ photo' = photo /\ uploaded' = uploaded /\ asked' = asked
        /\ \A u \in Tabs \ {t} : pass'[u] = pass[u]
    BY <1>18 DEF DeleteQueued, Go, server, TypeOK
  <2>3. \A x \in Photos : ~DoneWith("photo", x)
    BY <1>18, <2>1, SoleDone DEF DeleteQueued
  <2>4. \A x \in Photos : PhotoOnce(x)'
    BY <2>1, <2>2, <2>3, PhotoKept
  <2>5. PhotoJobs(t)'
    BY <1>18, <2>1, <2>2 DEF PhotoJobs, DeleteQueued, Go, Done, TypeOK
  <2> QED BY <2>1, <2>2, <2>4, <2>5, PhotoJobsKept
<1>19. ASSUME NEW t \in Tabs, ReadMark(t)
      PROVE  PhotosOnce'
  <2> SUFFICES ASSUME Unharmed'
               PROVE  /\ \A x \in Photos : PhotoOnce(x)'
                      /\ \A u \in Tabs : PhotoJobs(u)'
    BY DEF PhotosOnce
  <2>1. /\ Unharmed /\ "overlap" \notin causes
        /\ \A x \in Photos : PhotoOnce(x)
        /\ \A u \in Tabs : PhotoJobs(u)
    BY Causes DEF Unharmed, PhotosOnce
  <2>2. /\ photo' = photo /\ uploaded' = uploaded /\ asked' = asked
        /\ \A u \in Tabs \ {t} : pass'[u] = pass[u]
    BY <1>19 DEF ReadMark, Go, device, server, TypeOK
  <2>3. \A x \in Photos : ~DoneWith("photo", x)
    BY <1>19, <2>1, SoleDone DEF ReadMark
  <2>4. \A x \in Photos : PhotoOnce(x)'
    BY <2>1, <2>2, <2>3, PhotoKept
  <2>5. PhotoJobs(t)'
    BY <1>19, <2>1, <2>2 DEF PhotoJobs, ReadMark, Go, TypeOK
  <2> QED BY <2>1, <2>2, <2>4, <2>5, PhotoJobsKept
<1>20. ASSUME NEW t \in Tabs, PutDraft(t)
      PROVE  PhotosOnce'
  <2> SUFFICES ASSUME Unharmed'
               PROVE  /\ \A x \in Photos : PhotoOnce(x)'
                      /\ \A u \in Tabs : PhotoJobs(u)'
    BY DEF PhotosOnce
  <2>1. /\ Unharmed /\ "overlap" \notin causes
        /\ \A x \in Photos : PhotoOnce(x)
        /\ \A u \in Tabs : PhotoJobs(u)
    BY Causes DEF Unharmed, PhotosOnce
  <2>2. /\ photo' = photo /\ uploaded' = uploaded /\ asked' = asked
        /\ \A u \in Tabs \ {t} : pass'[u] = pass[u]
    BY <1>20 DEF PutDraft, Go, server, TypeOK
  <2>3. \A x \in Photos : ~DoneWith("photo", x)
    BY <1>20, <2>1, SoleDone DEF PutDraft
  <2>4. \A x \in Photos : PhotoOnce(x)'
    BY <2>1, <2>2, <2>3, PhotoKept
  <2>5. PhotoJobs(t)'
    BY <1>20, <2>1, <2>2 DEF PhotoJobs, PutDraft, Go, Done, TypeOK
  <2> QED BY <2>1, <2>2, <2>4, <2>5, PhotoJobsKept
<1>21. ASSUME NEW t \in Tabs, GiveUp(t)
      PROVE  PhotosOnce'
  <2> SUFFICES ASSUME Unharmed'
               PROVE  /\ \A x \in Photos : PhotoOnce(x)'
                      /\ \A u \in Tabs : PhotoJobs(u)'
    BY DEF PhotosOnce
  <2>1. /\ Unharmed /\ "overlap" \notin causes
        /\ \A x \in Photos : PhotoOnce(x)
        /\ \A u \in Tabs : PhotoJobs(u)
    BY Causes DEF Unharmed, PhotosOnce
  <2>2. /\ photo' = photo /\ uploaded' = uploaded /\ asked' = asked
        /\ \A u \in Tabs \ {t} : pass'[u] = pass[u]
    BY <1>21 DEF GiveUp, Go, device, server, TypeOK
  <2>3. \A x \in Photos : ~DoneWith("photo", x)
    BY <1>21, <2>1, SoleDone DEF GiveUp
  <2>4. \A x \in Photos : PhotoOnce(x)'
    BY <2>1, <2>2, <2>3, PhotoKept
  <2>5. PhotoJobs(t)'
    BY <1>21, <2>1, <2>2 DEF PhotoJobs, GiveUp, Go, Done, TypeOK
  <2> QED BY <2>1, <2>2, <2>4, <2>5, PhotoJobsKept
<1>22. ASSUME NEW t \in Tabs, CountRetry(t)
      PROVE  PhotosOnce'
  <2> SUFFICES ASSUME Unharmed'
               PROVE  /\ \A x \in Photos : PhotoOnce(x)'
                      /\ \A u \in Tabs : PhotoJobs(u)'
    BY DEF PhotosOnce
  <2>1. /\ Unharmed /\ "overlap" \notin causes
        /\ \A x \in Photos : PhotoOnce(x)
        /\ \A u \in Tabs : PhotoJobs(u)
    BY Causes DEF Unharmed, PhotosOnce
  <2>2. /\ photo' = photo /\ uploaded' = uploaded /\ asked' = asked
        /\ \A u \in Tabs \ {t} : pass'[u] = pass[u]
    BY <1>22 DEF CountRetry, Go, server, TypeOK
  <2>3. \A x \in Photos : ~DoneWith("photo", x)
    BY <1>22, <2>1, SoleDone DEF CountRetry
  <2>4. \A x \in Photos : PhotoOnce(x)'
    BY <2>1, <2>2, <2>3, PhotoKept
  <2>5. PhotoJobs(t)'
    BY <1>22, <2>1, <2>2 DEF PhotoJobs, CountRetry, Go, Done, TypeOK
  <2> QED BY <2>1, <2>2, <2>4, <2>5, PhotoJobsKept
<1>23. ASSUME NEW t \in Tabs, ServeCall(t)
      PROVE  PhotosOnce'
  <2> SUFFICES ASSUME Unharmed'
               PROVE  /\ \A x \in Photos : PhotoOnce(x)'
                      /\ \A u \in Tabs : PhotoJobs(u)'
    BY DEF PhotosOnce
  <2>1. /\ Unharmed /\ "overlap" \notin causes
        /\ \A x \in Photos : PhotoOnce(x)
        /\ \A u \in Tabs : PhotoJobs(u)
    BY Causes DEF Unharmed, PhotosOnce
  <2>2. /\ photo' = photo /\ asked' = asked /\ pass[t].at = "sent" /\ pass[t].job \in Jobs
        /\ pass'[t].job = pass[t].job /\ pass'[t].todo = pass[t].todo
        /\ \A u \in Tabs \ {t} : pass'[u] = pass[u]
    BY <1>23, ServeFacts DEF ServeCall, device, Shape
  <2>3. \A x \in Photos : ~DoneWith("photo", x)
    BY <2>1, <2>2, SoleDone
  <2>4. PhotoJobs(t)'
    BY <2>1, <2>2 DEF PhotoJobs
  <2>5. ASSUME NEW x \in Photos PROVE PhotoOnce(x)'
    <3>1. CASE pass'[t].at = "done" /\ pass[t].job.kind = "photo" /\ pass[t].job.what = x
      <4>1. uploaded'[x] = uploaded[x] + 1 /\ DoneWith("photo", x)'
        BY <1>23, <2>2, <3>1, ServeFacts, CarryOutFacts DEF DoneWith
      <4>2. photo[x] = "unsynced"
        BY <2>1, <2>2, <3>1 DEF PhotoJobs
      <4>3. uploaded[x] = 0
        BY <2>1, <2>3, <4>2 DEF PhotoOnce, TypeOK
      <4> QED BY <2>1, <2>2, <4>1, <4>2, <4>3 DEF PhotoOnce
    <3>2. CASE ~(pass'[t].at = "done" /\ pass[t].job.kind = "photo" /\ pass[t].job.what = x)
      <4>1. uploaded'[x] = uploaded[x]
        BY <1>23, <2>2, <3>2, ServeFacts, CarryOutFacts DEF server
      <4> QED BY <2>1, <2>2, <2>3, <4>1 DEF PhotoOnce
    <3> QED BY <3>1, <3>2
  <2> QED BY <2>1, <2>2, <2>4, <2>5, PhotoJobsKept
<1>24. CASE GoOnline
  <2> SUFFICES ASSUME Unharmed'
               PROVE  /\ \A x \in Photos : PhotoOnce(x)'
                      /\ \A u \in Tabs : PhotoJobs(u)'
    BY DEF PhotosOnce
  <2>1. /\ Unharmed /\ "overlap" \notin causes
        /\ \A x \in Photos : PhotoOnce(x)
        /\ \A u \in Tabs : PhotoJobs(u)
    BY Causes DEF Unharmed, PhotosOnce
  <2>2. /\ pass' = pass /\ photo' = photo /\ uploaded' = uploaded /\ asked \subseteq asked'
    BY <1>24 DEF GoOnline, device, server
  <2> QED BY <2>1, <2>2, PhotoKept, PhotoJobsKept DEF DoneWith
<1>25. CASE GoOffline
  <2> SUFFICES ASSUME Unharmed'
               PROVE  /\ \A x \in Photos : PhotoOnce(x)'
                      /\ \A u \in Tabs : PhotoJobs(u)'
    BY DEF PhotosOnce
  <2>1. /\ Unharmed /\ "overlap" \notin causes
        /\ \A x \in Photos : PhotoOnce(x)
        /\ \A u \in Tabs : PhotoJobs(u)
    BY Causes DEF Unharmed, PhotosOnce
  <2>2. /\ pass' = pass /\ photo' = photo /\ uploaded' = uploaded /\ asked \subseteq asked'
    BY <1>25 DEF GoOffline, device, server
  <2> QED BY <2>1, <2>2, PhotoKept, PhotoJobsKept DEF DoneWith
<1>26. ASSUME NEW t \in Tabs, CallFails(t)
      PROVE  PhotosOnce'
  <2> SUFFICES ASSUME Unharmed'
               PROVE  /\ \A x \in Photos : PhotoOnce(x)'
                      /\ \A u \in Tabs : PhotoJobs(u)'
    BY DEF PhotosOnce
  <2>1. /\ Unharmed /\ "overlap" \notin causes
        /\ \A x \in Photos : PhotoOnce(x)
        /\ \A u \in Tabs : PhotoJobs(u)
    BY Causes DEF Unharmed, PhotosOnce
  <2>2. /\ photo' = photo /\ uploaded' = uploaded /\ asked' = asked
        /\ \A u \in Tabs \ {t} : pass'[u] = pass[u]
    BY <1>26 DEF CallFails, Go, device, server, TypeOK
  <2>3. \A x \in Photos : ~DoneWith("photo", x)
    BY <1>26, <2>1, SoleDone DEF CallFails
  <2>4. \A x \in Photos : PhotoOnce(x)'
    BY <2>1, <2>2, <2>3, PhotoKept
  <2>5. PhotoJobs(t)'
    BY <1>26, <2>1, <2>2 DEF PhotoJobs, CallFails, Go, TypeOK
  <2> QED BY <2>1, <2>2, <2>4, <2>5, PhotoJobsKept
<1>27. ASSUME NEW t \in Tabs, AnswerLost(t)
      PROVE  PhotosOnce'
  BY <1>27 DEF AnswerLost, PhotosOnce, Unharmed
<1>28. ASSUME NEW t \in Tabs, TabCloses(t)
      PROVE  PhotosOnce'
  BY <1>28 DEF TabCloses, PhotosOnce, Unharmed
<1> QED BY <1>1, <1>2, <1>3, <1>4, <1>5, <1>6, <1>7, <1>8, <1>9, <1>10, <1>11,
       <1>12, <1>13, <1>14, <1>15, <1>16, <1>17, <1>18, <1>19, <1>20, <1>21,
       <1>22, <1>23, <1>24, <1>25, <1>26, <1>27, <1>28 DEF Next, PassStep,
       UserStep, MishapStep

LEMMA SameClockIn ==
  ASSUME NEW j \in Jobs, NEW k \in Jobs, j.kind = "in", k.kind = "in",
         j.what = k.what, j.stop = k.stop
  PROVE  j = k
<1>1. ASSUME NEW i \in Jobs, i.kind = "in"
      PROVE  i = [kind |-> "in", what |-> i.what, stop |-> i.stop]
  <2>1. i \in [kind : LogKinds, what : Logs, stop : BOOLEAN]
    BY <1>1 DEF Jobs, LogKinds
  <2> QED BY <1>1, <2>1
<1> QED BY <1>1

LEMMA JobTypes ==
  ASSUME TypeOK, Shape, NEW t \in Tabs
  PROVE  /\ pass[t].todo \subseteq Jobs
         /\ pass[t].at # "next" => pass[t].job \in Jobs
         /\ \A j \in Jobs : j.kind \in LogKinds => j.what \in Logs /\ j.stop \in BOOLEAN
BY DEF TypeOK, Shape, Jobs, LogKinds

(* Only the tab that is syncing can have clocked an entry in.               *)
LEMMA SoleClock ==
  ASSUME TypeOK, Shape, OnePass, causes = {}, NEW t \in Tabs,
         Syncing(t) \/ pass[t].at # "next" \/ pass[t].todo # {},
         NEW l, NEW u \in Tabs, ClockedInBy(u, l)
  PROVE  ClockedInBy(t, l)
BY Others DEF ClockedInBy

LEMMA ClockingIdle ==
  ASSUME NEW u \in Tabs, pass'[u] = pass[u], pass[u].at = "next", pass[u].todo = {},
         ~Syncing(u)
  PROVE  Clocking(u)'
BY DEF Clocking, Syncing

LEMMA ClockingKept ==
  ASSUME NEW u \in Tabs, Clocking(u), pass'[u] = pass[u], temp' = temp, open' = open,
         online => online'
  PROVE  Clocking(u)'
BY DEF Clocking, Syncing

LEMMA LabourKept ==
  ASSUME TypeOK, NEW l \in Logs, LabourAt(l), made' = made, asked \subseteq asked',
         temp' = temp,
         \A t \in Tabs : ClockedInBy(t, l) => ClockedInBy(t, l)'
  PROVE  LabourAt(l)'
BY DEF LabourAt

LEMMA LabourStep ==
  ASSUME TypeOK, Shape, OnePass, OwnsQueue, Labour, [Next]_vars
  PROVE  Labour'
<1>1. CASE UNCHANGED vars
  BY <1>1 DEF vars, device, server, Labour, LabourAt, Clocking, ClockedInBy,
     Syncing
<1>2. ASSUME NEW w \in Writes, WriteOffline(w)
      PROVE  Labour'
  <2> SUFFICES ASSUME causes' = {}
               PROVE  /\ queue'.w \notin Copies
                      /\ \A x \in Logs : LabourAt(x)'
                      /\ \A u \in Tabs : Clocking(u)'
    BY DEF Labour
  <2>1. /\ causes = {} /\ "overlap" \notin causes /\ queue.w \notin Copies
        /\ \A x \in Logs : LabourAt(x)
        /\ \A u \in Tabs : Clocking(u)
    BY Causes DEF Labour
  <2>2. /\ pass' = pass /\ temp' = temp /\ made' = made /\ open' = open
        /\ queue'.w = queue.w \/ queue'.w = w
        /\ asked \subseteq asked' /\ online' = online
    BY <1>2 DEF WriteOffline, Queued, server
  <2>3. w \notin Copies
    BY OfflineAssumption DEF Copies
  <2> QED BY <2>1, <2>2, <2>3, LabourKept, ClockingKept DEF ClockedInBy
<1>3. ASSUME NEW w \in Writes, EditOffline(w)
      PROVE  Labour'
  <2> SUFFICES ASSUME causes' = {}
               PROVE  /\ queue'.w \notin Copies
                      /\ \A x \in Logs : LabourAt(x)'
                      /\ \A u \in Tabs : Clocking(u)'
    BY DEF Labour
  <2>1. /\ causes = {} /\ "overlap" \notin causes /\ queue.w \notin Copies
        /\ \A x \in Logs : LabourAt(x)
        /\ \A u \in Tabs : Clocking(u)
    BY Causes DEF Labour
  <2>2. /\ pass' = pass /\ temp' = temp /\ made' = made /\ open' = open
        /\ queue'.w = queue.w \/ queue'.w = w
        /\ asked \subseteq asked' /\ online' = online
    BY <1>3 DEF EditOffline, Queued, server
  <2>3. w \notin Copies
    BY OfflineAssumption DEF Copies
  <2> QED BY <2>1, <2>2, <2>3, LabourKept, ClockingKept DEF ClockedInBy
<1>4. CASE StoreDraft
  <2> SUFFICES ASSUME causes' = {}
               PROVE  /\ queue'.w \notin Copies
                      /\ \A x \in Logs : LabourAt(x)'
                      /\ \A u \in Tabs : Clocking(u)'
    BY DEF Labour
  <2>1. /\ causes = {} /\ "overlap" \notin causes /\ queue.w \notin Copies
        /\ \A x \in Logs : LabourAt(x)
        /\ \A u \in Tabs : Clocking(u)
    BY Causes DEF Labour
  <2>2. /\ pass' = pass /\ temp' = temp /\ made' = made /\ open' = open
        /\ queue' = queue /\ asked \subseteq asked' /\ (online => online')
    BY <1>4 DEF StoreDraft, server
  <2> QED BY <2>1, <2>2, LabourKept, ClockingKept DEF ClockedInBy
<1>5. CASE ViewDiagnosis
  <2> SUFFICES ASSUME causes' = {}
               PROVE  /\ queue'.w \notin Copies
                      /\ \A x \in Logs : LabourAt(x)'
                      /\ \A u \in Tabs : Clocking(u)'
    BY DEF Labour
  <2>1. /\ causes = {} /\ "overlap" \notin causes /\ queue.w \notin Copies
        /\ \A x \in Logs : LabourAt(x)
        /\ \A u \in Tabs : Clocking(u)
    BY Causes DEF Labour
  <2>2. /\ pass' = pass /\ temp' = temp /\ made' = made /\ open' = open
        /\ queue' = queue /\ asked \subseteq asked' /\ (online => online')
    BY <1>5 DEF ViewDiagnosis, server
  <2> QED BY <2>1, <2>2, LabourKept, ClockingKept DEF ClockedInBy
<1>6. ASSUME NEW l \in Logs, ClockIn(l)
      PROVE  Labour'
  <2> SUFFICES ASSUME causes' = {}
               PROVE  /\ queue'.w \notin Copies
                      /\ \A x \in Logs : LabourAt(x)'
                      /\ \A u \in Tabs : Clocking(u)'
    BY DEF Labour
  <2>1. /\ causes = {} /\ "overlap" \notin causes /\ queue.w \notin Copies
        /\ \A x \in Logs : LabourAt(x)
        /\ \A u \in Tabs : Clocking(u)
    BY Causes DEF Labour
  <2>2. /\ pass' = pass /\ made' = made /\ queue' = queue
        /\ asked' = asked \cup {l} /\ l \notin asked /\ ~online
        /\ temp' = [temp EXCEPT ![l] = "running"]
    BY <1>6 DEF ClockIn, server
  <2>3. made[l] = 0
    BY <2>1, <2>2 DEF LabourAt, TypeOK
  <2>4. ASSUME NEW x \in Logs PROVE LabourAt(x)'
    <3>1. temp'[x] = IF x = l THEN "running" ELSE temp[x]
      BY <2>2 DEF TypeOK
    <3>2. \A u \in Tabs : ClockedInBy(u, x)' <=> ClockedInBy(u, x)
      BY <2>2 DEF ClockedInBy
    <3> QED BY <2>1, <2>2, <2>3, <3>1, <3>2 DEF LabourAt
  <2>5. ASSUME NEW u \in Tabs PROVE Clocking(u)'
    BY <2>1, <2>2, ClockingIdle DEF Clocking, Shape
  <2> QED BY <2>1, <2>2, <2>4, <2>5
<1>7. CASE ClockOutTemp
  <2> SUFFICES ASSUME causes' = {}
               PROVE  /\ queue'.w \notin Copies
                      /\ \A x \in Logs : LabourAt(x)'
                      /\ \A u \in Tabs : Clocking(u)'
    BY DEF Labour
  <2>1. /\ causes = {} /\ "overlap" \notin causes /\ queue.w \notin Copies
        /\ \A x \in Logs : LabourAt(x)
        /\ \A u \in Tabs : Clocking(u)
    BY Causes DEF Labour
  <2> DEFINE l == timer.what
  <2>2. /\ l \in Logs /\ temp' = [temp EXCEPT ![l] = "stopped"] /\ temp[l] # "none"
        /\ pass' = pass /\ made' = made /\ open' = open /\ queue' = queue
        /\ asked' = asked /\ online' = online
    BY <1>7 DEF ClockOutTemp, server, TypeOK
  <2>3. \A u \in Tabs : pass[u].stage # "logs"
    BY <1>7 DEF ClockOutTemp, Sending
  <2>4. ASSUME NEW x \in Logs PROVE LabourAt(x)'
    <3>1. temp'[x] # "none" <=> temp[x] # "none"
      BY <2>2 DEF TypeOK
    <3>2. \A u \in Tabs : ClockedInBy(u, x)' <=> ClockedInBy(u, x)
      BY <2>2 DEF ClockedInBy
    <3> QED BY <2>1, <2>2, <3>1, <3>2 DEF LabourAt
  <2>5. ASSUME NEW u \in Tabs PROVE Clocking(u)'
    <3>1. /\ \A j \in pass[u].todo : j.kind \notin LogKinds
          /\ pass[u].at # "next" => pass[u].job.kind \notin LogKinds
      BY <2>3 DEF Shape
    <3> QED BY <2>1, <2>2, <3>1 DEF Clocking, Syncing, LogKinds
  <2> QED BY <2>1, <2>2, <2>4, <2>5
<1>8. CASE ClockOutOffline
  <2> SUFFICES ASSUME causes' = {}
               PROVE  /\ queue'.w \notin Copies
                      /\ \A x \in Logs : LabourAt(x)'
                      /\ \A u \in Tabs : Clocking(u)'
    BY DEF Labour
  <2>1. /\ causes = {} /\ "overlap" \notin causes /\ queue.w \notin Copies
        /\ \A x \in Logs : LabourAt(x)
        /\ \A u \in Tabs : Clocking(u)
    BY Causes DEF Labour
  <2>2. /\ pass' = pass /\ temp' = temp /\ made' = made /\ open' = open
        /\ queue' = queue /\ asked \subseteq asked' /\ (online => online')
    BY <1>8 DEF ClockOutOffline, server
  <2> QED BY <2>1, <2>2, LabourKept, ClockingKept DEF ClockedInBy
<1>9. CASE ClockOutOnline
  <2> SUFFICES ASSUME causes' = {}
               PROVE  /\ queue'.w \notin Copies
                      /\ \A x \in Logs : LabourAt(x)'
                      /\ \A u \in Tabs : Clocking(u)'
    BY DEF Labour
  <2>1. /\ causes = {} /\ "overlap" \notin causes /\ queue.w \notin Copies
        /\ \A x \in Logs : LabourAt(x)
        /\ \A u \in Tabs : Clocking(u)
    BY Causes DEF Labour
  <2>2. /\ pass' = pass /\ temp' = temp /\ made' = made /\ queue' = queue
        /\ asked' = asked /\ online' = online
    BY <1>9 DEF ClockOutOnline
  <2>3. \A u \in Tabs : pass[u].stage # "logs"
    BY <1>9 DEF ClockOutOnline, Sending
  <2>4. ASSUME NEW u \in Tabs PROVE Clocking(u)'
    <3>1. /\ \A j \in pass[u].todo : j.kind \notin LogKinds
          /\ pass[u].at # "next" => pass[u].job.kind \notin LogKinds
      BY <2>3 DEF Shape
    <3> QED BY <2>1, <2>2, <3>1 DEF Clocking, Syncing, LogKinds
  <2> QED BY <2>1, <2>2, <2>4, LabourKept DEF ClockedInBy
<1>10. CASE OpenPage
  <2> SUFFICES ASSUME causes' = {}
               PROVE  /\ queue'.w \notin Copies
                      /\ \A x \in Logs : LabourAt(x)'
                      /\ \A u \in Tabs : Clocking(u)'
    BY DEF Labour
  <2>1. /\ causes = {} /\ "overlap" \notin causes /\ queue.w \notin Copies
        /\ \A x \in Logs : LabourAt(x)
        /\ \A u \in Tabs : Clocking(u)
    BY Causes DEF Labour
  <2>2. /\ pass' = pass /\ temp' = temp /\ made' = made /\ open' = open
        /\ queue' = queue /\ asked \subseteq asked' /\ (online => online')
    BY <1>10 DEF OpenPage, server
  <2> QED BY <2>1, <2>2, LabourKept, ClockingKept DEF ClockedInBy
<1>11. ASSUME NEW f \in Photos, TakePhoto(f)
      PROVE  Labour'
  <2> SUFFICES ASSUME causes' = {}
               PROVE  /\ queue'.w \notin Copies
                      /\ \A x \in Logs : LabourAt(x)'
                      /\ \A u \in Tabs : Clocking(u)'
    BY DEF Labour
  <2>1. /\ causes = {} /\ "overlap" \notin causes /\ queue.w \notin Copies
        /\ \A x \in Logs : LabourAt(x)
        /\ \A u \in Tabs : Clocking(u)
    BY Causes DEF Labour
  <2>2. /\ pass' = pass /\ temp' = temp /\ made' = made /\ open' = open
        /\ queue' = queue /\ asked \subseteq asked' /\ (online => online')
    BY <1>11 DEF TakePhoto, server
  <2> QED BY <2>1, <2>2, LabourKept, ClockingKept DEF ClockedInBy
<1>12. ASSUME NEW t \in Tabs, StartSync(t)
      PROVE  Labour'
  <2> SUFFICES ASSUME causes' = {}
               PROVE  /\ queue'.w \notin Copies
                      /\ \A x \in Logs : LabourAt(x)'
                      /\ \A u \in Tabs : Clocking(u)'
    BY DEF Labour
  <2>1. /\ causes = {} /\ "overlap" \notin causes /\ queue.w \notin Copies
        /\ \A x \in Logs : LabourAt(x)
        /\ \A u \in Tabs : Clocking(u)
    BY Causes DEF Labour
  <2>2. /\ queue' = queue /\ temp' = temp /\ made' = made /\ open' = open /\ asked' = asked
        /\ online' = online /\ online
        /\ \A u \in Tabs \ {t} : pass'[u] = pass[u]
        /\ \A u \in Tabs : ~Syncing(u)
        /\ pass'[t].todo = Todo("logs") /\ pass'[t].at = "next"
    BY <1>12 DEF StartSync, Go, IdlePass, device, server, TypeOK
  <2>3. \A x \in Logs, u \in Tabs : ~ClockedInBy(u, x)
    BY <2>2 DEF ClockedInBy, Shape
  <2>4. Clocking(t)'
    BY <2>2, TodoFacts DEF Clocking, State, LogKinds, Stages
  <2> QED BY <2>1, <2>2, <2>3, <2>4, LabourKept, ClockingKept
<1>13. ASSUME NEW t \in Tabs, NextStage(t)
      PROVE  Labour'
  <2> SUFFICES ASSUME causes' = {}
               PROVE  /\ queue'.w \notin Copies
                      /\ \A x \in Logs : LabourAt(x)'
                      /\ \A u \in Tabs : Clocking(u)'
    BY DEF Labour
  <2>1. /\ causes = {} /\ "overlap" \notin causes /\ queue.w \notin Copies
        /\ \A x \in Logs : LabourAt(x)
        /\ \A u \in Tabs : Clocking(u)
    BY Causes DEF Labour
  <2>2. /\ temp' = temp /\ made' = made /\ open' = open /\ asked' = asked /\ online' = online
        /\ \A u \in Tabs \ {t} : pass'[u] = pass[u]
    BY <1>13, StageFacts DEF NextStage, device, server
  <2>3. \A x \in Logs, u \in Tabs : ~ClockedInBy(u, x)
    <3>1. \A x \in Logs : ~ClockedInBy(t, x)
      BY <1>13 DEF NextStage, ClockedInBy
    <3> QED BY <1>13, <2>1, <3>1, SoleClock DEF NextStage
  <2>4. queue'.w \notin Copies
    BY <1>13, <2>1 DEF NextStage, device
  <2>5. Clocking(t)'
    <3>1. After(pass[t].stage) \in Stages
      BY AfterType DEF TypeOK
    <3>2. /\ pass'[t].todo = Todo(After(pass[t].stage)) /\ pass'[t].at = "next"
          /\ Syncing(t)
      BY <1>13, StageFacts DEF NextStage
    <3> QED BY <2>1, <2>2, <3>1, <3>2, TodoFacts DEF Clocking, State, LogKinds
  <2> QED BY <2>1, <2>2, <2>3, <2>4, <2>5, LabourKept, ClockingKept
<1>14. ASSUME NEW t \in Tabs, NEW job \in pass[t].todo, SendJob(t, job)
      PROVE  Labour'
  <2> SUFFICES ASSUME causes' = {}
               PROVE  /\ queue'.w \notin Copies
                      /\ \A x \in Logs : LabourAt(x)'
                      /\ \A u \in Tabs : Clocking(u)'
    BY DEF Labour
  <2>1. /\ causes = {} /\ "overlap" \notin causes /\ queue.w \notin Copies
        /\ \A x \in Logs : LabourAt(x)
        /\ \A u \in Tabs : Clocking(u)
    BY Causes DEF Labour
  <2>2. /\ temp' = temp /\ made' = made /\ open' = open /\ asked' = asked /\ online' = online
        /\ \A u \in Tabs \ {t} : pass'[u] = pass[u]
    BY <1>14, SendFacts DEF SendJob, server
  <2>3. \A x \in Logs, u \in Tabs : ~ClockedInBy(u, x)
    <3>1. \A x \in Logs : ~ClockedInBy(t, x)
      BY <1>14 DEF SendJob, ClockedInBy
    <3> QED BY <1>14, <2>1, <3>1, SoleClock DEF SendJob
  <2>6. online
    <3>1. Syncing(t)
      BY <1>14, <2>1, Others
    <3> QED BY <2>1, <3>1 DEF Clocking
  <2>4. queue'.w \notin Copies
    BY <1>14, <2>1, <2>6, SendFacts
  <2>5. Clocking(t)'
    <3>1. /\ Clocking(t) /\ job \in Jobs /\ pass[t].todo \subseteq Jobs
          /\ pass'[t].todo = pass[t].todo \ {job} /\ pass'[t].job = job
          /\ pass'[t].at = "sent" /\ online
      BY <1>14, <2>1, <2>6, SendFacts, JobTypes
    <3>2. ASSUME job.kind = "in", NEW j \in pass[t].todo \ {job}, j.kind = "in"
          PROVE  j.what # job.what
      BY <3>1, <3>2, SameClockIn, JobTypes DEF Clocking, State, LogKinds
    <3> QED BY <2>2, <3>1, <3>2 DEF Clocking
  <2> QED BY <2>1, <2>2, <2>3, <2>4, <2>5, LabourKept, ClockingKept
<1>15. ASSUME NEW t \in Tabs, ClockedIn(t)
      PROVE  Labour'
  <2> SUFFICES ASSUME causes' = {}
               PROVE  /\ queue'.w \notin Copies
                      /\ \A x \in Logs : LabourAt(x)'
                      /\ \A u \in Tabs : Clocking(u)'
    BY DEF Labour
  <2>1. /\ causes = {} /\ "overlap" \notin causes /\ queue.w \notin Copies
        /\ \A x \in Logs : LabourAt(x)
        /\ \A u \in Tabs : Clocking(u)
    BY Causes DEF Labour
  <2>2. /\ temp' = temp /\ made' = made /\ open' = open /\ asked' = asked /\ online' = online
        /\ pass[t].at = "done" /\ pass[t].job.kind = "in"
    BY <1>15 DEF ClockedIn, server
  <2>3. online
    <3>1. Syncing(t)
      BY <2>1, <2>2, Others
    <3> QED BY <2>1, <3>1 DEF Clocking
  <2>4. /\ pass'[t].todo = pass[t].todo /\ pass'[t].job.kind = "then"
        /\ pass'[t].job.what = pass[t].job.what /\ pass'[t].job.stop = pass[t].job.stop
        /\ pass'[t].at = "sent" /\ queue' = queue
        /\ \A u \in Tabs \ {t} : pass'[u] = pass[u]
    BY <1>15, <2>3, ClockedInFacts
  <2>5. Clocking(t)'
    BY <2>1, <2>2, <2>3, <2>4 DEF Clocking
  <2>6. \A x \in Logs, u \in Tabs : ClockedInBy(u, x) => ClockedInBy(u, x)'
    BY <2>2, <2>4 DEF ClockedInBy
  <2> QED BY <2>1, <2>2, <2>4, <2>5, <2>6, LabourKept, ClockingKept
<1>16. ASSUME NEW t \in Tabs, LogSent(t)
      PROVE  Labour'
  <2> SUFFICES ASSUME causes' = {}
               PROVE  /\ queue'.w \notin Copies
                      /\ \A x \in Logs : LabourAt(x)'
                      /\ \A u \in Tabs : Clocking(u)'
    BY DEF Labour
  <2>1. /\ causes = {} /\ "overlap" \notin causes /\ queue.w \notin Copies
        /\ \A x \in Logs : LabourAt(x)
        /\ \A u \in Tabs : Clocking(u)
    BY Causes DEF Labour
  <2> DEFINE l == pass[t].job.what
  <2>2. /\ pass[t].at = "done" /\ pass[t].job.kind \in LogKinds
        /\ queue' = queue /\ made' = made /\ open' = open /\ asked' = asked /\ online' = online
        /\ \A u \in Tabs \ {t} : pass'[u] = pass[u]
        /\ pass'[t].todo = pass[t].todo /\ pass'[t].at = "next"
        /\ pass'[t].stage = pass[t].stage
    BY <1>16 DEF LogSent, Go, Done, LogKinds, server, TypeOK
  <2>3. l \in Logs /\ pass[t].todo \subseteq Jobs
    BY <2>2, JobTypes
  <2>4. Clocking(t) /\ Syncing(t)
    BY <2>1, <2>2, Others
  <2>5. CASE pass[t].job.kind = "out"
    <3>1. temp' = temp
      BY <1>16, <2>5 DEF LogSent
    <3>2. \A x \in Logs, u \in Tabs : ~ClockedInBy(u, x)
      BY <2>1, <2>2, <2>5, SoleClock DEF ClockedInBy
    <3>3. Clocking(t)'
      BY <2>2, <2>4, <3>1 DEF Clocking, Syncing
    <3> QED BY <2>1, <2>2, <3>1, <3>2, <3>3, LabourKept, ClockingKept
  <2>6. CASE pass[t].job.kind \in {"in", "then"}
    <3>1. temp' = [temp EXCEPT ![l] = "none"]
      BY <1>16, <2>6 DEF LogSent
    <3>2. \A x \in Logs : temp'[x] = IF x = l THEN "none" ELSE temp[x]
      BY <3>1 DEF TypeOK
    <3>3. ASSUME NEW x \in Logs PROVE LabourAt(x)'
      <4>1. x # l => \A u \in Tabs : ~ClockedInBy(u, x)
        BY <2>1, <2>2, SoleClock DEF ClockedInBy
      <4> QED BY <2>1, <2>2, <3>2, <4>1 DEF LabourAt
    <3>4. ASSUME NEW j \in pass[t].todo, j.kind = "in" PROVE temp'[j.what] = State(j.stop)
      <4>1. j.what # l /\ j.what \in Logs /\ temp[j.what] = State(j.stop)
        BY <2>2, <2>3, <2>4, <2>6, <3>4, JobTypes DEF Clocking, LogKinds
      <4> QED BY <3>2, <4>1
    <3>5. Clocking(t)'
      BY <2>2, <2>4, <3>4 DEF Clocking, Syncing
    <3>6. ASSUME NEW u \in Tabs \ {t} PROVE Clocking(u)'
      BY <2>1, <2>2, <3>6, Others, ClockingIdle
    <3> QED BY <2>1, <2>2, <3>3, <3>5, <3>6
  <2> QED BY <2>2, <2>5, <2>6 DEF LogKinds
<1>17. ASSUME NEW t \in Tabs, PhotoSent(t)
      PROVE  Labour'
  <2> SUFFICES ASSUME causes' = {}
               PROVE  /\ queue'.w \notin Copies
                      /\ \A x \in Logs : LabourAt(x)'
                      /\ \A u \in Tabs : Clocking(u)'
    BY DEF Labour
  <2>1. /\ causes = {} /\ "overlap" \notin causes /\ queue.w \notin Copies
        /\ \A x \in Logs : LabourAt(x)
        /\ \A u \in Tabs : Clocking(u)
    BY Causes DEF Labour
  <2>2. /\ temp' = temp /\ made' = made /\ open' = open /\ asked' = asked /\ online' = online
        /\ \A u \in Tabs \ {t} : pass'[u] = pass[u]
    BY <1>17 DEF PhotoSent, Go, server, TypeOK
  <2>3. \A x \in Logs, u \in Tabs : ~ClockedInBy(u, x)
    <3>1. \A x \in Logs : ~ClockedInBy(t, x)
      BY <1>17 DEF PhotoSent, ClockedInBy
    <3> QED BY <1>17, <2>1, <3>1, SoleClock DEF PhotoSent
  <2>4. queue'.w \notin Copies
    BY <1>17, <2>1 DEF PhotoSent
  <2>5. Clocking(t)'
    <3>1. /\ pass'[t].todo = pass[t].todo /\ pass'[t].stage = pass[t].stage
          /\ pass'[t].at = "next"
      BY <1>17 DEF PhotoSent, Go, Done, TypeOK
    <3> QED BY <2>1, <2>2, <3>1 DEF Clocking, Syncing
  <2> QED BY <2>1, <2>2, <2>3, <2>4, <2>5, LabourKept, ClockingKept
<1>18. ASSUME NEW t \in Tabs, DeleteQueued(t)
      PROVE  Labour'
  <2> SUFFICES ASSUME causes' = {}
               PROVE  /\ queue'.w \notin Copies
                      /\ \A x \in Logs : LabourAt(x)'
                      /\ \A u \in Tabs : Clocking(u)'
    BY DEF Labour
  <2>1. /\ causes = {} /\ "overlap" \notin causes /\ queue.w \notin Copies
        /\ \A x \in Logs : LabourAt(x)
        /\ \A u \in Tabs : Clocking(u)
    BY Causes DEF Labour
  <2>2. /\ temp' = temp /\ made' = made /\ open' = open /\ asked' = asked /\ online' = online
        /\ \A u \in Tabs \ {t} : pass'[u] = pass[u]
    BY <1>18 DEF DeleteQueued, Go, server, TypeOK
  <2>3. \A x \in Logs, u \in Tabs : ~ClockedInBy(u, x)
    <3>1. \A x \in Logs : ~ClockedInBy(t, x)
      BY <1>18 DEF DeleteQueued, ClockedInBy
    <3> QED BY <1>18, <2>1, <3>1, SoleClock DEF DeleteQueued
  <2>4. queue'.w \notin Copies
    BY <1>18, OfflineAssumption DEF DeleteQueued, NoEntry, Copies
  <2>5. Clocking(t)'
    <3>1. /\ pass'[t].todo = pass[t].todo /\ pass'[t].stage = pass[t].stage
          /\ pass'[t].at = "next" \/ (pass'[t].at \in {"mark", "count"} /\ pass'[t].job.kind = "queue")
      BY <1>18 DEF DeleteQueued, Go, Done, TypeOK
    <3> QED BY <2>1, <2>2, <3>1 DEF Clocking, Syncing
  <2> QED BY <2>1, <2>2, <2>3, <2>4, <2>5, LabourKept, ClockingKept
<1>19. ASSUME NEW t \in Tabs, ReadMark(t)
      PROVE  Labour'
  <2> SUFFICES ASSUME causes' = {}
               PROVE  /\ queue'.w \notin Copies
                      /\ \A x \in Logs : LabourAt(x)'
                      /\ \A u \in Tabs : Clocking(u)'
    BY DEF Labour
  <2>1. /\ causes = {} /\ "overlap" \notin causes /\ queue.w \notin Copies
        /\ \A x \in Logs : LabourAt(x)
        /\ \A u \in Tabs : Clocking(u)
    BY Causes DEF Labour
  <2>2. /\ temp' = temp /\ made' = made /\ open' = open /\ asked' = asked /\ online' = online
        /\ \A u \in Tabs \ {t} : pass'[u] = pass[u]
    BY <1>19 DEF ReadMark, Go, device, server, TypeOK
  <2>3. \A x \in Logs, u \in Tabs : ~ClockedInBy(u, x)
    <3>1. \A x \in Logs : ~ClockedInBy(t, x)
      BY <1>19 DEF ReadMark, ClockedInBy
    <3> QED BY <1>19, <2>1, <3>1, SoleClock DEF ReadMark
  <2>4. queue'.w \notin Copies
    BY <1>19, <2>1 DEF ReadMark, device
  <2>5. Clocking(t)'
    <3>1. /\ pass'[t].todo = pass[t].todo /\ pass'[t].stage = pass[t].stage
          /\ pass'[t].at = "put" /\ pass[t].at = "mark" /\ pass'[t].job = pass[t].job
      BY <1>19 DEF ReadMark, Go, Done, TypeOK
    <3> QED BY <2>1, <2>2, <3>1 DEF Clocking, Syncing
  <2> QED BY <2>1, <2>2, <2>3, <2>4, <2>5, LabourKept, ClockingKept
<1>20. ASSUME NEW t \in Tabs, PutDraft(t)
      PROVE  Labour'
  <2> SUFFICES ASSUME causes' = {}
               PROVE  /\ queue'.w \notin Copies
                      /\ \A x \in Logs : LabourAt(x)'
                      /\ \A u \in Tabs : Clocking(u)'
    BY DEF Labour
  <2>1. /\ causes = {} /\ "overlap" \notin causes /\ queue.w \notin Copies
        /\ \A x \in Logs : LabourAt(x)
        /\ \A u \in Tabs : Clocking(u)
    BY Causes DEF Labour
  <2>2. /\ temp' = temp /\ made' = made /\ open' = open /\ asked' = asked /\ online' = online
        /\ \A u \in Tabs \ {t} : pass'[u] = pass[u]
    BY <1>20 DEF PutDraft, Go, server, TypeOK
  <2>3. \A x \in Logs, u \in Tabs : ~ClockedInBy(u, x)
    <3>1. \A x \in Logs : ~ClockedInBy(t, x)
      BY <1>20 DEF PutDraft, ClockedInBy
    <3> QED BY <1>20, <2>1, <3>1, SoleClock DEF PutDraft
  <2>4. queue'.w \notin Copies
    BY <1>20, <2>1 DEF PutDraft
  <2>5. Clocking(t)'
    <3>1. /\ pass'[t].todo = pass[t].todo /\ pass'[t].stage = pass[t].stage
          /\ pass'[t].at = "next"
      BY <1>20 DEF PutDraft, Go, Done, TypeOK
    <3> QED BY <2>1, <2>2, <3>1 DEF Clocking, Syncing
  <2> QED BY <2>1, <2>2, <2>3, <2>4, <2>5, LabourKept, ClockingKept
<1>21. ASSUME NEW t \in Tabs, GiveUp(t)
      PROVE  Labour'
  <2> SUFFICES ASSUME causes' = {}
               PROVE  /\ queue'.w \notin Copies
                      /\ \A x \in Logs : LabourAt(x)'
                      /\ \A u \in Tabs : Clocking(u)'
    BY DEF Labour
  <2>1. /\ causes = {} /\ "overlap" \notin causes /\ queue.w \notin Copies
        /\ \A x \in Logs : LabourAt(x)
        /\ \A u \in Tabs : Clocking(u)
    BY Causes DEF Labour
  <2>2. /\ temp' = temp /\ made' = made /\ open' = open /\ asked' = asked /\ online' = online
        /\ \A u \in Tabs \ {t} : pass'[u] = pass[u]
    BY <1>21 DEF GiveUp, Go, device, server, TypeOK
  <2>3. \A x \in Logs, u \in Tabs : ~ClockedInBy(u, x)
    <3>1. \A x \in Logs : ~ClockedInBy(t, x)
      BY <1>21 DEF GiveUp, ClockedInBy
    <3> QED BY <1>21, <2>1, <3>1, SoleClock DEF GiveUp
  <2>4. queue'.w \notin Copies
    BY <1>21, <2>1 DEF GiveUp, device
  <2>5. Clocking(t)'
    <3>1. /\ pass'[t].todo = pass[t].todo /\ pass'[t].stage = pass[t].stage
          /\ pass'[t].at = "next" \/ (pass'[t].at \in {"mark", "count"} /\ pass'[t].job.kind = "queue")
      BY <1>21 DEF GiveUp, Go, Done, TypeOK
    <3> QED BY <2>1, <2>2, <3>1 DEF Clocking, Syncing
  <2> QED BY <2>1, <2>2, <2>3, <2>4, <2>5, LabourKept, ClockingKept
<1>22. ASSUME NEW t \in Tabs, CountRetry(t)
      PROVE  Labour'
  <2> SUFFICES ASSUME causes' = {}
               PROVE  /\ queue'.w \notin Copies
                      /\ \A x \in Logs : LabourAt(x)'
                      /\ \A u \in Tabs : Clocking(u)'
    BY DEF Labour
  <2>1. /\ causes = {} /\ "overlap" \notin causes /\ queue.w \notin Copies
        /\ \A x \in Logs : LabourAt(x)
        /\ \A u \in Tabs : Clocking(u)
    BY Causes DEF Labour
  <2>2. /\ temp' = temp /\ made' = made /\ open' = open /\ asked' = asked /\ online' = online
        /\ \A u \in Tabs \ {t} : pass'[u] = pass[u]
    BY <1>22 DEF CountRetry, Go, server, TypeOK
  <2>3. \A x \in Logs, u \in Tabs : ~ClockedInBy(u, x)
    <3>1. \A x \in Logs : ~ClockedInBy(t, x)
      BY <1>22 DEF CountRetry, ClockedInBy
    <3> QED BY <1>22, <2>1, <3>1, SoleClock DEF CountRetry
  <2>4. queue'.w \notin Copies
    <3>1. Owns(t) /\ pass[t].at = "count" /\ pass[t].held \in Entries
      BY <1>22, <2>1 DEF CountRetry, OwnsQueue, Shape
    <3> QED BY <1>22, <2>1, <3>1 DEF CountRetry, Owns, Entries
  <2>5. Clocking(t)'
    <3>1. /\ pass'[t].todo = pass[t].todo /\ pass'[t].stage = pass[t].stage
          /\ pass'[t].at = "next"
      BY <1>22 DEF CountRetry, Go, Done, TypeOK
    <3> QED BY <2>1, <2>2, <3>1 DEF Clocking, Syncing
  <2> QED BY <2>1, <2>2, <2>3, <2>4, <2>5, LabourKept, ClockingKept
<1>23. ASSUME NEW t \in Tabs, ServeCall(t)
      PROVE  Labour'
  <2> SUFFICES ASSUME causes' = {}
               PROVE  /\ queue'.w \notin Copies
                      /\ \A x \in Logs : LabourAt(x)'
                      /\ \A u \in Tabs : Clocking(u)'
    BY DEF Labour
  <2>1. /\ causes = {} /\ "overlap" \notin causes /\ queue.w \notin Copies
        /\ \A x \in Logs : LabourAt(x)
        /\ \A u \in Tabs : Clocking(u)
    BY Causes DEF Labour
  <2>2. /\ temp' = temp /\ queue' = queue /\ asked' = asked /\ online' = online
        /\ pass[t].at = "sent" /\ pass[t].job \in Jobs /\ Owns(t) /\ Clocking(t)
        /\ pass'[t].stage = pass[t].stage /\ pass'[t].todo = pass[t].todo
        /\ pass'[t].job = pass[t].job
        /\ \A u \in Tabs \ {t} : pass'[u] = pass[u]
    BY <1>23, <2>1, ServeFacts DEF ServeCall, device, OwnsQueue, Shape
  <2>3. ASSUME NEW u \in Tabs \ {t} PROVE Clocking(u)'
    BY <2>1, <2>2, <2>3, Others, ClockingIdle
  <2>4. pass[t].job.kind = "queue" => pass[t].job.what \notin Copies
    BY <2>1, <2>2 DEF Owns
  <2>5. CASE pass'[t].at = "failed" /\ UNCHANGED server /\ Refuses(pass[t].job)
    <3>1. pass[t].job.kind # "then"
      BY <2>2, <2>5 DEF Refuses, Clocking
    <3>2. \A x \in Logs, u \in Tabs : ~ClockedInBy(u, x)
      BY <2>1, <2>2, <3>1, SoleClock DEF ClockedInBy
    <3>3. made' = made /\ open' = open
      BY <2>5 DEF server
    <3>4. Clocking(t)'
      BY <2>2, <2>5, <3>1, <3>3 DEF Clocking, Syncing
    <3> QED BY <2>1, <2>2, <2>3, <3>2, <3>3, <3>4, LabourKept
  <2>6. CASE pass'[t].at = "done" /\ CarryOut(pass[t].job)
    <3>1. Clocking(t)'
      BY <2>2, <2>6, CarryOutFacts DEF Clocking, Syncing
    <3>2. CASE pass[t].job.kind = "in"
      <4> DEFINE l == pass[t].job.what
      <4>1. \A x \in Logs, u \in Tabs : ~ClockedInBy(u, x)
        BY <2>1, <2>2, <3>2, SoleClock DEF ClockedInBy
      <4>2. /\ l \in Logs /\ temp[l] = State(pass[t].job.stop)
            /\ \A x \in Logs : made'[x] = IF x = l THEN made[x] + 1 ELSE made[x]
        BY <2>2, <2>6, <3>2, CarryOutFacts, JobTypes DEF Clocking, LogKinds
      <4>3. made[l] = 0
        <5>1. temp[l] # "none" /\ made[l] \in Nat
          BY <4>2 DEF State, TypeOK
        <5> QED BY <2>1, <4>1, <4>2, <5>1 DEF LabourAt
      <4>4. ClockedInBy(t, l)'
        BY <2>2, <2>6, <3>2 DEF ClockedInBy
      <4>5. ASSUME NEW x \in Logs PROVE LabourAt(x)'
        <5>1. CASE x = l
          BY <2>1, <2>2, <4>2, <4>3, <4>4, <5>1 DEF LabourAt, State
        <5>2. CASE x # l
          BY <2>1, <2>2, <4>1, <4>2, <5>2 DEF LabourAt
        <5> QED BY <5>1, <5>2
      <4> QED BY <2>1, <2>2, <2>3, <3>1, <4>5
    <3>3. CASE pass[t].job.kind # "in"
      <4>1. made' = made
        BY <2>2, <2>4, <2>6, <3>3, CarryOutFacts DEF Jobs
      <4>2. \A x \in Logs, u \in Tabs : ClockedInBy(u, x) => ClockedInBy(u, x)'
        BY <2>2, <2>6, <3>3 DEF ClockedInBy
      <4> QED BY <2>1, <2>2, <2>3, <3>1, <4>1, <4>2, LabourKept
    <3> QED BY <3>2, <3>3
  <2> QED BY <1>23, <2>5, <2>6, ServeFacts
<1>24. CASE GoOnline
  <2> SUFFICES ASSUME causes' = {}
               PROVE  /\ queue'.w \notin Copies
                      /\ \A x \in Logs : LabourAt(x)'
                      /\ \A u \in Tabs : Clocking(u)'
    BY DEF Labour
  <2>1. /\ causes = {} /\ "overlap" \notin causes /\ queue.w \notin Copies
        /\ \A x \in Logs : LabourAt(x)
        /\ \A u \in Tabs : Clocking(u)
    BY Causes DEF Labour
  <2>2. /\ pass' = pass /\ temp' = temp /\ made' = made /\ open' = open
        /\ queue' = queue /\ asked \subseteq asked' /\ (online => online')
    BY <1>24 DEF GoOnline, device, server
  <2> QED BY <2>1, <2>2, LabourKept, ClockingKept DEF ClockedInBy
<1>25. CASE GoOffline
  <2> SUFFICES ASSUME causes' = {}
               PROVE  /\ queue'.w \notin Copies
                      /\ \A x \in Logs : LabourAt(x)'
                      /\ \A u \in Tabs : Clocking(u)'
    BY DEF Labour
  <2>1. /\ causes = {} /\ "overlap" \notin causes /\ queue.w \notin Copies
        /\ \A x \in Logs : LabourAt(x)
        /\ \A u \in Tabs : Clocking(u)
    BY Causes DEF Labour
  <2>2. /\ pass' = pass /\ temp' = temp /\ made' = made /\ open' = open
        /\ queue' = queue /\ asked' = asked
    BY <1>25 DEF GoOffline, device, server
  <2>3. \A u \in Tabs : ~Syncing(u)
    BY <1>25 DEF GoOffline
  <2>4. ASSUME NEW u \in Tabs PROVE Clocking(u)'
    BY <2>2, <2>3, ClockingIdle DEF Shape
  <2> QED BY <2>1, <2>2, <2>4, LabourKept DEF ClockedInBy
<1>26. ASSUME NEW t \in Tabs, CallFails(t)
      PROVE  Labour'
  BY <1>26 DEF CallFails, Labour
<1>27. ASSUME NEW t \in Tabs, AnswerLost(t)
      PROVE  Labour'
  BY <1>27 DEF AnswerLost, Labour
<1>28. ASSUME NEW t \in Tabs, TabCloses(t)
      PROVE  Labour'
  BY <1>28 DEF TabCloses, Labour
<1> QED BY <1>1, <1>2, <1>3, <1>4, <1>5, <1>6, <1>7, <1>8, <1>9, <1>10, <1>11,
       <1>12, <1>13, <1>14, <1>15, <1>16, <1>17, <1>18, <1>19, <1>20, <1>21,
       <1>22, <1>23, <1>24, <1>25, <1>26, <1>27, <1>28 DEF Next, PassStep,
       UserStep, MishapStep

-----------------------------------------------------------------------------
(* The invariant and the theorems.                                          *)

LEMMA InitInv ==
  ASSUME Init
  PROVE  IInv
<1>1. TypeOK
  <2>1. NoEntry \in Entries
    BY OfflineAssumption DEF NoEntry, Entries
  <2>2. [edits |-> {}, synced |-> TRUE] \in Drafts
    BY DEF Drafts
  <2>3. IdlePass \in Passes
    BY DEF IdlePass, Passes, Ats, Held, Stages
  <2>4. pass \in [Tabs -> Passes]
    BY <2>3 DEF Init
  <2> QED BY <2>1, <2>2, <2>4 DEF Init, TypeOK, Passes, Ats, Held
<1>2. \A t \in Tabs : pass[t] = IdlePass
  BY DEF Init
<1>3. Shape /\ OnePass /\ OwnsQueue
  BY <1>2 DEF Shape, OnePass, OwnsQueue, Owns, IdlePass, HoldsDraft, Syncing
<1>4. Accounted
  BY <1>2 DEF Accounted, HoldsDraft, IdlePass, Init
<1>5. WritesOnce
  BY <1>2, OfflineAssumption DEF WritesOnce, WriteOnce, Init, NoEntry
<1>6. PhotosOnce
  BY <1>2 DEF PhotosOnce, PhotoOnce, PhotoJobs, IdlePass, Init
<1>7. Labour
  BY <1>2, OfflineAssumption
     DEF Labour, LabourAt, Clocking, IdlePass, Syncing, Init, NoEntry, Copies
<1> QED BY <1>1, <1>3, <1>4, <1>5, <1>6, <1>7 DEF IInv

LEMMA StepInv ==
  ASSUME IInv, [Next]_vars
  PROVE  IInv'
BY TypeStep, ShapeStep, OnePassStep, OwnsQueueStep, AccountedStep, WritesOnceStep,
   PhotosOnceStep, LabourStep DEF IInv

(* Every reachable state satisfies the invariant.                           *)
THEOREM Invariance == Spec => []IInv
<1>1. Init => IInv
  BY InitInv
<1>2. IInv /\ [Next]_vars => IInv'
  BY StepInv
<1> QED BY <1>1, <1>2, PTL DEF Spec

(* Every store, every pass and the server's records are well typed, for any *)
(* number of tabs, writes, entries and photos (all handlers of the app).    *)
THEOREM TypeCorrect == Spec => []TypeOK
<1>1. IInv => TypeOK
  BY DEF IInv
<1> QED BY <1>1, Invariance, PTL

(* No interleaving of edits, passes, failures, lost answers and closed tabs *)
(* loses a write the queue accepted (syncQueueDB, processQueuedRequest).    *)
THEOREM AcceptedWritesKept == Spec => []QueuedNotLost
<1>1. IInv => QueuedNotLost
  BY DEF IInv, Accounted, QueuedNotLost, Safe
<1> QED BY <1>1, Invariance, PTL

(* The cached diagnosis, written by the editor, by markSynced and by the    *)
(* fetch of syncAll, never shows an edit that neither the queue nor the     *)
(* server has.                                                              *)
THEOREM DraftHonest == Spec => []DraftAccountedFor
<1>1. IInv => DraftAccountedFor
  BY DEF IInv, Accounted, DraftAccountedFor, Safe
<1> QED BY <1>1, Invariance, PTL

(* While one tab syncs and no answer is lost, no write is carried out and   *)
(* no photo stored twice, however often calls fail and are sent again.      *)
THEOREM NothingTwice == Spec => []AppliedOnce
<1>1. IInv => AppliedOnce
  BY DEF IInv, WritesOnce, WriteOnce, PhotosOnce, PhotoOnce, Unharmed, AppliedOnce
<1> QED BY <1>1, Invariance, PTL

(* With no mishap and no clock-out across a pass, a labour entry becomes    *)
(* one time log (the loop of syncAll over timeLogsDB).                      *)
THEOREM LabourBookedOnce == Spec => []LabourOnce
<1>1. IInv => LabourOnce
  BY DEF IInv, Labour, LabourAt, LabourOnce
<1> QED BY <1>1, Invariance, PTL
=============================================================================
