---------------------------- MODULE OfflineSync ----------------------------
(***************************************************************************)
(* The technician app without a connection.  Writes made offline go into   *)
(* one IndexedDB that all tabs of the browser share: a queue of requests,  *)
(* labour entries, site photos and diagnosis drafts.  syncAll sends them   *)
(* one after the other when a tab comes online, every five minutes, and    *)
(* when the user asks; each tab has its own isSyncing.                     *)
(*                                                                         *)
(* Sources: src/frontend/lib/offline, store/offlineStore.ts, the request   *)
(* interceptor of lib/api/client.ts and the pages of app/mobile that write *)
(* to these stores; for the server's side workorders/views/time_logs.py    *)
(* and serializers.py, and the views of diagnosis and roadside, in apps.   *)
(* A request of the queue is a member of Writes, or the                    *)
(* copy <<"in", l>>, <<"out", l>> that the interceptor queues of a call    *)
(* syncAll makes for a labour entry when the connection has just gone.     *)
(***************************************************************************)
EXTENDS Naturals, FiniteSets

CONSTANTS
  Tabs,       \* the tabs that run syncAll on the shared database
  Writes,     \* requests the user makes offline, each at most once
  Patches,    \* those that edit the diagnosis draft
  Mutations,  \* those that only touch the draft (codes, tests, start, ...)
  Logs,       \* labour entries, of one technician
  Photos,     \* roadside site photos
  Mishaps,    \* which of "failed", "lost", "closed", "blip" may happen
  MaxCauses,  \* bound on the kinds of mishap in a behaviour
  MaxMade,    \* bound on the time logs of an entry that the user stops online
  MaxRetries, \* retries from which getPending leaves a request out: 3
  None

ASSUME OfflineAssumption ==
  /\ None \notin Writes \cup ({"in", "out"} \X Logs)
  /\ Writes \cap ({"in", "out"} \X Logs) = {}
  /\ Patches \subseteq Writes /\ Mutations \subseteq Writes \ Patches
  /\ MaxRetries \in Nat /\ MaxCauses \in Nat /\ MaxMade \in Nat
  /\ Mishaps \subseteq {"failed", "lost", "closed", "blip"}

VARIABLES
  online,    \* navigator.onLine
  queue,     \* the record of syncQueue, which is always stored under key 0
  draft,     \* the cached diagnosis: its edits, and the flag synced
  saving,    \* the draft patchDiagnosisOfflineAware has yet to store, or None
  temp,      \* per labour entry: its record under a temporary id
  copy,      \* per labour entry: its record under the server's id
  timer,     \* the running entry the page shows (activeLog), or None
  photo,     \* per photo: its record in the photo store
  applied,   \* server: how often a write was carried out
  open,      \* server: the labour entry whose clock runs, or None
  made,      \* server: how many time logs an entry has
  stopped,   \* server: the entries with a time log that was clocked out
  uploaded,  \* server: how often a photo was stored
  pass,      \* per tab: its run of syncAll
  asked,     \* history: writes and entries the user has made
  taken,     \* history: writes the queue has accepted
  causes     \* history: what has happened that may cost or double a write

device == <<queue, draft, saving, temp, copy, timer, photo>>
server == <<applied, open, made, stopped, uploaded>>
vars   == <<online, device, server, pass, asked, taken, causes>>

Copies    == {"in", "out"} \X Logs
NoEntry   == [w |-> None, retries |-> 0]
Entries   == [w : Writes \cup Copies \cup {None}, retries : 0..MaxRetries]
Drafts    == [edits : SUBSET Patches, synced : BOOLEAN]
Jobs      == [kind : {"in", "then", "out"}, what : Logs, stop : BOOLEAN]
             \cup [kind : {"photo"}, what : Photos, stop : {FALSE}]
             \cup [kind : {"queue"}, what : Writes \cup Copies, stop : {FALSE}]
             \cup [kind : {"draft"}, what : {None}, stop : {FALSE}]
NoJob     == [kind |-> "none", what |-> None, stop |-> FALSE]
IdlePass  == [stage |-> "idle", todo |-> {}, job |-> NoJob, at |-> "next",
              held |-> None]
Stages    == {"idle", "logs", "photos", "queue", "drafts"}
After(s)  == CASE s = "logs" -> "photos" [] s = "photos" -> "queue"
               [] s = "queue" -> "drafts" [] OTHER -> "idle"
Diagnosis == Patches \cup Mutations
OnServer  == {w \in Patches : applied[w] > 0}
Unsent(e) == e.w # None /\ e.retries < MaxRetries

TypeOK ==
  /\ online \in BOOLEAN
  /\ queue \in Entries
  /\ draft \in Drafts /\ saving \in Drafts \cup {None}
  /\ temp \in [Logs -> {"none", "running", "stopped"}]
  /\ copy \in [Logs -> {"none", "running", "stopping", "stopped"}]
  /\ timer \in [what : Logs, temp : BOOLEAN] \cup {None}
  /\ photo \in [Photos -> {"none", "unsynced", "synced"}]
  /\ applied \in [Writes -> Nat] /\ open \in Logs \cup {None}
  /\ made \in [Logs -> Nat] /\ stopped \subseteq Logs
  /\ uploaded \in [Photos -> Nat]
  /\ pass \in [Tabs -> [stage : Stages, todo : SUBSET Jobs,
                       job : Jobs \cup {NoJob},
                       at : {"next", "sent", "done", "failed", "mark", "put", "count"},
                       held : Drafts \cup Entries \cup {None}]]
  /\ asked \subseteq Writes \cup Logs \cup Photos /\ taken \subseteq asked \cap Writes
  /\ causes \subseteq {"failed", "lost", "closed", "blip", "overlap", "crossed"}

Init ==
  /\ online = TRUE
  /\ queue = NoEntry
  /\ draft = [edits |-> {}, synced |-> TRUE] /\ saving = None
  /\ temp = [l \in Logs |-> "none"] /\ copy = [l \in Logs |-> "none"]
  /\ timer = None
  /\ photo = [f \in Photos |-> "none"]
  /\ applied = [w \in Writes |-> 0]
  /\ open = None /\ made = [l \in Logs |-> 0] /\ stopped = {}
  /\ uploaded = [f \in Photos |-> 0]
  /\ pass = [t \in Tabs |-> IdlePass]
  /\ asked = {} /\ taken = {} /\ causes = {}

-----------------------------------------------------------------------------
QueuedOver(w) == [w |-> w, retries |-> 0]   \* Fault: put in place of add

(* syncQueueDB.add: the record carries id 0, so the store neither numbers  *)
(* it nor takes a second one while the first is there (ConstraintError).   *)
Queued(w) == IF queue.w = None THEN [w |-> w, retries |-> 0] ELSE queue
Accepts   == queue.w = None

-----------------------------------------------------------------------------
(* The user                                                                *)

(* The offline branch of a handler, or the interceptor for it.             *)
WriteOffline(w) ==
  /\ ~online /\ w \notin asked \cup Diagnosis
  /\ asked' = asked \cup {w}
  /\ queue' = Queued(w)
  /\ taken' = IF Accepts THEN taken \cup {w} ELSE taken
  /\ UNCHANGED <<online, draft, saving, temp, copy, timer, photo, server, pass, causes>>

EditShown(w) ==                             \* Fault: stored though refused
  /\ ~online /\ saving = None /\ w \in Diagnosis \ asked
  /\ asked' = asked \cup {w}
  /\ queue' = Queued(w)
  /\ taken' = IF Accepts THEN taken \cup {w} ELSE taken
  /\ saving' = [edits |-> draft.edits \cup ({w} \cap Patches), synced |-> FALSE]
  /\ UNCHANGED <<online, draft, temp, copy, timer, photo, server, pass, causes>>

(* patchDiagnosisOfflineAware and runDiagnosisMutation: queue the request, *)
(* then store the draft.  The patched draft was read before the queueing,  *)
(* the touched one after; a refused request leaves the draft alone.        *)
EditOffline(w) ==
  /\ ~online /\ saving = None /\ w \in Diagnosis \ asked
  /\ asked' = asked \cup {w}
  /\ queue' = Queued(w)
  /\ IF Accepts
     THEN /\ taken' = taken \cup {w}
          /\ saving' = [edits |-> draft.edits \cup ({w} \cap Patches), synced |-> FALSE]
     ELSE UNCHANGED <<taken, saving>>
  /\ UNCHANGED <<online, draft, temp, copy, timer, photo, server, pass, causes>>

StoreDraft ==
  /\ saving # None
  /\ draft' = saving
  /\ saving' = None
  /\ UNCHANGED <<online, queue, temp, copy, timer, photo, server, pass, asked,
                 taken, causes>>

(* fetchDiagnosisForWorkOrder online: the server's diagnosis is cached.    *)
ViewDiagnosis ==
  /\ online /\ saving = None
  /\ draft' = [edits |-> OnServer, synced |-> TRUE]
  /\ UNCHANGED <<online, queue, saving, temp, copy, timer, photo, server, pass,
                 asked, taken, causes>>

(* handleClockIn offline: a record under a temporary id.                   *)
ClockIn(l) ==
  /\ ~online /\ timer = None /\ l \notin asked
  /\ asked' = asked \cup {l}
  /\ temp' = [temp EXCEPT ![l] = "running"]
  /\ timer' = [what |-> l, temp |-> TRUE]
  /\ UNCHANGED <<online, queue, draft, saving, copy, photo, server, pass, taken, causes>>

Sending == \E t \in Tabs : pass[t].stage = "logs"

(* handleClockOut by the entry the page holds.  It crosses syncAll when    *)
(* that has sent, or is sending, the record the page's entry came from.    *)
ClockOutTemp ==
  LET l == timer.what IN
  /\ timer # None /\ timer.temp
  /\ temp' = [temp EXCEPT ![l] = "stopped"]
  /\ timer' = None
  /\ causes' = causes \cup
       (IF temp[l] = "none" \/ Sending THEN {"crossed"} ELSE {})
  /\ UNCHANGED <<online, queue, draft, saving, copy, photo, server, pass, asked, taken>>

ClockOutOffline ==
  /\ timer # None /\ ~timer.temp /\ ~online
  /\ made[timer.what] <= MaxMade
  /\ copy' = [copy EXCEPT ![timer.what] = "stopping"]
  /\ timer' = None
  /\ UNCHANGED <<online, queue, draft, saving, temp, photo, server, pass, asked,
                 taken, causes>>

ClockOutOnline ==
  /\ timer # None /\ ~timer.temp /\ online /\ open = timer.what
  /\ made[timer.what] <= MaxMade
  /\ open' = None /\ stopped' = stopped \cup {timer.what}
  /\ copy' = [copy EXCEPT ![timer.what] = "stopped"]
  /\ timer' = None
  /\ causes' = causes \cup (IF Sending THEN {"crossed"} ELSE {})
  /\ UNCHANGED <<online, queue, draft, saving, temp, photo, applied, made,
                 uploaded, pass, asked, taken>>

(* checkActiveLog: online by the server's answer, offline by the records,  *)
(* those with temporary, negative ids first.                               *)
ShownTimer ==
  LET temps  == {l \in Logs : temp[l] = "running"}
      copies == {l \in Logs : copy[l] = "running"} IN
  IF online THEN {IF open = None THEN None ELSE [what |-> open, temp |-> FALSE]}
  ELSE CASE temps # {}                  -> [what : temps, temp : {TRUE}]
         [] temps = {} /\ copies # {}   -> [what : copies, temp : {FALSE}]
         [] OTHER                       -> {None}

OpenPage ==
  /\ timer' \in ShownTimer
  /\ UNCHANGED <<online, queue, draft, saving, temp, copy, photo, server, pass,
                 asked, taken, causes>>

(* handlePhotoSelect offline.                                              *)
TakePhoto(f) ==
  /\ ~online /\ f \notin asked
  /\ asked' = asked \cup {f}
  /\ photo' = [photo EXCEPT ![f] = "unsynced"]
  /\ UNCHANGED <<online, queue, draft, saving, temp, copy, timer, server, pass,
                 taken, causes>>

-----------------------------------------------------------------------------
(* syncAll                                                                 *)

Syncing(t) == pass[t].stage # "idle"

TodoRunning(stage) ==                       \* Fault: stopped entries left out
  IF stage = "logs"
  THEN [kind : {"in"}, what : {l \in Logs : temp[l] = "running"}, stop : {FALSE}]
  ELSE {}

TodoExhausted(stage) ==                     \* Fault: the retry filter inverted
  IF stage = "queue"
  THEN [kind : {"queue"}, what : IF Unsent(queue) THEN {} ELSE {queue.w} \ {None},
        stop : {FALSE}]
  ELSE {}

(* What the next loop of syncAll reads before it starts.  A job carries    *)
(* the record as it was read.                                              *)
Todo(stage) ==
  CASE stage = "logs" ->
         [kind : {"in"}, what : {l \in Logs : temp[l] = "running"}, stop : {FALSE}]
         \cup [kind : {"in"}, what : {l \in Logs : temp[l] = "stopped"}, stop : {TRUE}]
         \cup [kind : {"out"}, what : {l \in Logs : copy[l] = "stopping"}, stop : {TRUE}]
    [] stage = "photos" ->
         [kind : {"photo"}, what : {f \in Photos : photo[f] = "unsynced"}, stop : {FALSE}]
    [] stage = "queue" ->
         [kind : {"queue"}, what : IF Unsent(queue) THEN {queue.w} ELSE {}, stop : {FALSE}]
    [] stage = "drafts" ->
         [kind : {"draft"}, what : IF draft.synced THEN {} ELSE {None}, stop : {FALSE}]
    [] OTHER -> {}

Go(t, p) == pass' = [pass EXCEPT ![t] = p]
Done(t)  == [pass[t] EXCEPT !.job = NoJob, !.at = "next", !.held = None]

StartSyncAgain(t) ==                        \* Fault: isSyncing not looked at
  /\ online
  /\ Go(t, [IdlePass EXCEPT !.stage = "logs", !.todo = Todo("logs")])
  /\ causes' = causes \cup (IF \E u \in Tabs \ {t} : Syncing(u) THEN {"overlap"} ELSE {})
  /\ UNCHANGED <<online, device, server, asked, taken>>

(* offlineStore.sync.                                                      *)
StartSync(t) ==
  /\ online /\ ~Syncing(t)
  /\ \/ Todo("logs") # {} \/ Todo("photos") # {} \/ Unsent(queue) \/ ~draft.synced
  /\ Go(t, [IdlePass EXCEPT !.stage = "logs", !.todo = Todo("logs")])
  /\ causes' = causes \cup (IF \E u \in Tabs \ {t} : Syncing(u) THEN {"overlap"} ELSE {})
  /\ UNCHANGED <<online, device, server, asked, taken>>

NextStage(t) ==
  /\ Syncing(t) /\ pass[t].at = "next" /\ pass[t].todo = {}
  /\ Go(t, [pass[t] EXCEPT !.stage = After(@), !.todo = Todo(After(pass[t].stage))])
  /\ UNCHANGED <<online, device, server, asked, taken, causes>>

(* The interceptor offline: a write is queued, or the queue refuses it, as *)
(* it does the form data of a photo; either way the call rejects.          *)
Intercept(job) ==
  queue' = CASE job.kind = "in"              -> Queued(<<"in", job.what>>)
             [] job.kind \in {"then", "out"} -> Queued(<<"out", job.what>>)
             [] job.kind = "queue"           -> Queued(job.what)
             [] OTHER                        -> queue

Call(t, p, job) ==
  IF online
  THEN /\ Go(t, [p EXCEPT !.job = job, !.at = "sent"])
       /\ UNCHANGED queue
  ELSE /\ Go(t, [p EXCEPT !.job = job, !.at = "failed"])
       /\ Intercept(job)

SendJob(t, job) ==
  /\ pass[t].at = "next" /\ job \in pass[t].todo
  /\ Call(t, [pass[t] EXCEPT !.todo = @ \ {job}], job)
  /\ UNCHANGED <<online, draft, saving, temp, copy, timer, photo, server, asked,
                 taken, causes>>

(* Django carries the call out: clock-in is refused while the technician   *)
(* has a running clock, clock-out of a log that is not running.            *)
ClockInAt(l)  == open = None /\ open' = l /\ made' = [made EXCEPT ![l] = @ + 1]
                 /\ UNCHANGED <<applied, stopped, uploaded>>
ClockOutAt(l) == open = l /\ open' = None /\ stopped' = stopped \cup {l}
                 /\ UNCHANGED <<applied, made, uploaded>>
CarryOut(job) ==
  \/ job.kind = "in" /\ ClockInAt(job.what)
  \/ job.kind \in {"then", "out"} /\ ClockOutAt(job.what)
  \/ /\ job.kind = "queue" /\ job.what \in Copies
     /\ IF job.what[1] = "in" THEN ClockInAt(job.what[2]) ELSE ClockOutAt(job.what[2])
  \/ /\ job.kind = "queue" /\ job.what \in Writes
     /\ applied' = [applied EXCEPT ![job.what] = @ + 1]
     /\ UNCHANGED <<open, made, stopped, uploaded>>
  \/ /\ job.kind = "photo"
     /\ uploaded' = [uploaded EXCEPT ![job.what] = @ + 1]
     /\ UNCHANGED <<applied, open, made, stopped>>
  \/ job.kind = "draft" /\ UNCHANGED server
Refuses(job) ==
  LET in(l)  == open # None
      out(l) == open # l IN
  \/ job.kind = "in" /\ in(job.what)
  \/ job.kind \in {"then", "out"} /\ out(job.what)
  \/ /\ job.kind = "queue" /\ job.what \in Copies
     /\ IF job.what[1] = "in" THEN in(job.what[2]) ELSE out(job.what[2])

ServeCall(t) ==
  /\ pass[t].at = "sent"
  /\ IF Refuses(pass[t].job)
     THEN Go(t, [pass[t] EXCEPT !.at = "failed"]) /\ UNCHANGED server
     ELSE /\ CarryOut(pass[t].job)
          /\ Go(t, [pass[t] EXCEPT !.at = "done",
                    !.held = IF pass[t].job.kind = "draft"
                             THEN [edits |-> OnServer, synced |-> TRUE] ELSE None])
  /\ UNCHANGED <<online, device, asked, taken, causes>>

May(mishap) == mishap \in Mishaps /\ Cardinality(causes \cup {mishap}) <= MaxCauses

(* The call comes to nothing, or is carried out and its answer lost.       *)
CallFails(t) ==
  /\ May("failed") /\ pass[t].at = "sent"
  /\ Go(t, [pass[t] EXCEPT !.at = "failed"])
  /\ causes' = causes \cup {"failed"}
  /\ UNCHANGED <<online, device, server, asked, taken>>

AnswerLost(t) ==
  /\ May("lost") /\ "lost" \notin causes /\ pass[t].at = "done"
  /\ Go(t, [pass[t] EXCEPT !.at = "failed", !.held = None])
  /\ causes' = causes \cup {"lost"}
  /\ UNCHANGED <<online, device, server, asked, taken>>

(* Clock-in went through.  An entry read as stopped is clocked out next;   *)
(* then the record under the temporary id is deleted, whatever it is by    *)
(* now, and the entry as it was read is stored under the server's id.      *)
ClockedIn(t) ==
  LET job == pass[t].job IN
  /\ pass[t].at = "done" /\ job.kind = "in" /\ job.stop
  /\ Call(t, pass[t], [job EXCEPT !.kind = "then"])
  /\ UNCHANGED <<online, draft, saving, temp, copy, timer, photo, server, asked,
                 taken, causes>>

LogKept(t) ==                               \* Fault: temporary record kept
  LET job == pass[t].job IN
  /\ pass[t].at = "done" /\ job.kind \in {"in", "then", "out"}
  /\ job.kind # "in" \/ ~job.stop
  /\ copy' = [copy EXCEPT ![job.what] = IF job.stop THEN "stopped" ELSE "running"]
  /\ Go(t, Done(t))
  /\ UNCHANGED <<online, queue, draft, saving, temp, timer, photo, server, asked,
                 taken, causes>>

LogSent(t) ==
  LET job == pass[t].job IN
  /\ pass[t].at = "done"
  /\ \/ /\ \/ job.kind = "in" /\ ~job.stop
           \/ job.kind = "then"
        /\ temp' = [temp EXCEPT ![job.what] = "none"]
        /\ copy' = [copy EXCEPT ![job.what] = IF job.stop THEN "stopped" ELSE "running"]
     \/ /\ job.kind = "out"
        /\ copy' = [copy EXCEPT ![job.what] = "stopped"]
        /\ UNCHANGED temp
  /\ Go(t, Done(t))
  /\ UNCHANGED <<online, queue, draft, saving, timer, photo, server, asked, taken, causes>>

PhotoSent(t) ==
  /\ pass[t].at = "done" /\ pass[t].job.kind = "photo"
  /\ photo' = [photo EXCEPT ![pass[t].job.what] = "synced"]
  /\ Go(t, Done(t))
  /\ UNCHANGED <<online, queue, draft, saving, temp, copy, timer, server, asked,
                 taken, causes>>

(* processQueuedRequest: the record under key 0 is deleted; a request on a *)
(* diagnosis then marks its draft synced, in a get and a put.              *)
DeleteQueued(t) ==
  /\ pass[t].at = "done" /\ pass[t].job.kind = "queue"
  /\ queue' = NoEntry
  /\ Go(t, IF pass[t].job.what \in Diagnosis /\ ~draft.synced
           THEN [pass[t] EXCEPT !.at = "mark"] ELSE Done(t))
  /\ UNCHANGED <<online, draft, saving, temp, copy, timer, photo, server, asked,
                 taken, causes>>

ReadMark(t) ==
  /\ pass[t].at = "mark"
  /\ Go(t, [pass[t] EXCEPT !.at = "put", !.held = draft])
  /\ UNCHANGED <<online, device, server, asked, taken, causes>>

(* The put of that markSynced, or of the draft that was fetched.           *)
PutDraft(t) ==
  /\ \/ pass[t].at = "put"
     \/ pass[t].at = "done" /\ pass[t].job.kind = "draft"
  /\ draft' = [pass[t].held EXCEPT !.synced = TRUE]
  /\ Go(t, Done(t))
  /\ UNCHANGED <<online, queue, saving, temp, copy, timer, photo, server, asked,
                 taken, causes>>

(* A failed call is left for the next pass; a failed request of the queue  *)
(* counts, in a get and a put of incrementRetries.                         *)
GiveUp(t) ==
  /\ pass[t].at = "failed"
  /\ Go(t, IF pass[t].job.kind = "queue" /\ queue.w # None
           THEN [pass[t] EXCEPT !.at = "count", !.held = queue] ELSE Done(t))
  /\ UNCHANGED <<online, device, server, asked, taken, causes>>

CountRetry(t) ==
  /\ pass[t].at = "count"
  /\ queue' = [pass[t].held EXCEPT !.retries = IF @ < MaxRetries THEN @ + 1 ELSE @]
  /\ Go(t, Done(t))
  /\ UNCHANGED <<online, draft, saving, temp, copy, timer, photo, server, asked,
                 taken, causes>>

-----------------------------------------------------------------------------
(* Connection and tabs                                                     *)

GoOnline ==
  /\ ~online /\ online' = TRUE
  /\ UNCHANGED <<device, server, pass, asked, taken, causes>>

(* The connection goes between two passes or, a mishap, within one.        *)
GoOffline ==
  LET within == \E t \in Tabs : Syncing(t) IN
  /\ online /\ online' = FALSE
  /\ asked # Writes \cup Logs \cup Photos
  /\ within => May("blip") /\ "blip" \notin causes
  /\ causes' = causes \cup (IF within THEN {"blip"} ELSE {})
  /\ UNCHANGED <<device, server, pass, asked, taken>>

(* The tab is closed or reloaded in the middle of a pass; the pages of the *)
(* user go with it.                                                        *)
TabCloses(t) ==
  /\ May("closed") /\ "closed" \notin causes
  /\ Syncing(t) \/ saving # None
  /\ Go(t, IdlePass)
  /\ saving' = None
  /\ timer' \in ShownTimer
  /\ causes' = causes \cup {"closed"}
  /\ UNCHANGED <<online, queue, draft, temp, copy, photo, server, asked, taken>>

-----------------------------------------------------------------------------
PassStep(t) ==
  \/ NextStage(t)
  \/ \E job \in pass[t].todo : SendJob(t, job)
  \/ ClockedIn(t) \/ LogSent(t) \/ PhotoSent(t)
  \/ DeleteQueued(t) \/ ReadMark(t) \/ PutDraft(t)
  \/ GiveUp(t) \/ CountRetry(t)

UserStep ==
  \/ \E w \in Writes : WriteOffline(w) \/ EditOffline(w)
  \/ ViewDiagnosis
  \/ \E l \in Logs : ClockIn(l)
  \/ ClockOutTemp \/ ClockOutOffline \/ ClockOutOnline \/ OpenPage
  \/ \E f \in Photos : TakePhoto(f)

MishapStep == \E t \in Tabs : CallFails(t) \/ AnswerLost(t) \/ TabCloses(t)

Next ==
  \/ UserStep \/ StoreDraft
  \/ \E t \in Tabs : StartSync(t) \/ PassStep(t) \/ ServeCall(t)
  \/ GoOnline \/ GoOffline
  \/ MishapStep

Spec == Init /\ [][Next]_vars

(* The device comes back online; then each tab starts a pass by its event  *)
(* or its timer, its script runs on, and every call is answered, if only   *)
(* by an error.  Nothing is promised of the user.                          *)
Fairness ==
  /\ WF_vars(GoOnline)
  /\ WF_vars(StoreDraft)
  /\ \A t \in Tabs : /\ SF_vars(StartSync(t))
                     /\ WF_vars(PassStep(t))
                     /\ WF_vars(ServeCall(t) \/ CallFails(t))

FairSpec == Spec /\ Fairness
-----------------------------------------------------------------------------
(* What the queue and its passes promise.  A violation needs the mishap    *)
(* named in the premise; each of them is one the code does not survive.    *)

(* A write the queue accepted is in it until the server has carried it     *)
(* out (syncQueueDB.add, processQueuedRequest), whatever fails, is lost or *)
(* closed, however the retries come out; two tabs at a time break it.      *)
QueuedNotLost ==
  "overlap" \notin causes => \A w \in taken : applied[w] > 0 \/ queue.w = w

(* No write is carried out twice and no photo stored twice, calls that     *)
(* fail and a connection that goes within a pass notwithstanding           *)
(* (processQueuedRequest deletes what it sent, syncAll marks the photo).   *)
AppliedOnce ==
  causes \cap {"overlap", "lost", "closed"} = {} =>
    /\ \A w \in Writes : applied[w] <= 1
    /\ \A f \in Photos : uploaded[f] <= 1

(* The diagnosis the technician sees shows no edit that is neither on the  *)
(* server nor on its way to it (patchDiagnosisOfflineAware, markSynced,    *)
(* the fetch of syncAll), though draft and queue are two stores.           *)
DraftAccountedFor ==
  "overlap" \notin causes => \A w \in draft.edits : applied[w] > 0 \/ queue.w = w

(* Labour is booked once: a labour entry makes one time log however its    *)
(* clock-in, its clock-out and the passes of syncAll come one after the    *)
(* other, unless a clock-out crosses the pass or something fails.          *)
LabourOnce ==
  causes = {} => \A l \in Logs : made[l] <= 1

(* The queue does not block for ever on one request: it is sent, or after  *)
(* three failures getPending leaves it out.                                *)
QueueDrains ==
  \A w \in Writes : queue.w = w ~> queue.w # w \/ ~Unsent(queue)

(* An entry clocked out under its temporary id ends up clocked out on the  *)
(* server, if nothing fails and the technician does not cross the pass.    *)
LabourReachesServer ==
  \A l \in Logs : temp[l] = "stopped" ~> l \in stopped \/ causes # {}

(* "Will sync when online" (app/mobile/workorders/[id]/page.tsx): so does  *)
(* it whatever fails on the way.                                           *)
TimerStops == \A l \in Logs : temp[l] = "stopped" ~> l \in stopped

(* The queue takes every write the user makes offline: syncQueueDB.add     *)
(* numbers the requests ("Will be auto-incremented", db.ts).               *)
EveryWriteTaken == asked \cap Writes = taken
=============================================================================
