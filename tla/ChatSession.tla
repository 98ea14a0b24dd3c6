---------------------------- MODULE ChatSession ----------------------------
(***************************************************************************)
(* The chat window of one user.  It shows one conversation at a time over  *)
(* a WebSocket that needs a ticket first; a closed socket is replaced      *)
(* after a delay.  The window and its hook are not remounted when the user *)
(* selects another conversation, so what the old conversation has under    *)
(* way, an attempt to connect, a request for the history, a text in the    *)
(* input, the message to reply to, goes on and lands in the new one.       *)
(*                                                                         *)
(* Sources: src/frontend/hooks/useChat.ts, components/chat/ChatWindow.tsx  *)
(* and ChatInput.tsx; the rooms of the server are the channel groups of    *)
(* src/apps/chat/consumers.py.                                             *)
(***************************************************************************)
EXTENDS Naturals, FiniteSets

CONSTANTS
  Convs,      \* the conversations
  First,      \* the one that is selected first
  Slots,      \* bound: attempts and sockets there can be at once
  Mine,       \* messages the user types, each once
  Theirs,     \* messages the others post, each once
  MaxDrops,   \* bound on the sockets the network or the server closes
  MaxSwitches,\* bound on the selections of another conversation, and on the
              \*   changes of the user record, that make the hook start over
  None

ASSUME ChatAssumption == /\ Mine \cap Theirs = {}
                         /\ None \notin Convs \cup Slots \cup Mine \cup Theirs
                         /\ First \in Convs /\ Slots # {}
                         /\ MaxDrops \in Nat /\ MaxSwitches \in Nat

VARIABLES
  conv,       \* the conversation the window shows
  sock,       \* per slot: an attempt to connect or the socket it became
  current,    \* socketRef.current: a slot, or None
  connected,  \* the state isConnected
  timer,      \* is the timer of reconnectTimeoutRef pending
  strays,     \* pending timers no ref points to any more
  history,    \* requests for a history under way
  shown,      \* the messages of the window
  draft,      \* the message in the input, or None
  replyTo,    \* the message of the reply banner, or None
  begun,      \* per message of the user: the conversation it was begun in,
  sent,       \*   the one that was shown when it was sent,
  parent,     \*   and the message it was sent as a reply to, or None each
  posted,     \* server: the conversation a message is stored in, or None
  drops,      \* how many sockets were closed on the user, and calls failed
  switches,   \* how many times the hook started over
  causes      \* history: what has happened that may mislead or lose a message

window == <<current, connected, timer, strays>>
input  == <<draft, replyTo, begun, sent, parent>>
bounds == <<drops, switches>>
vars   == <<conv, sock, window, history, shown, input, posted, bounds, causes>>

Messages == Mine \cup Theirs
Free     == [phase |-> "free", conv |-> None, inbox |-> {}, outbox |-> {}]
AnyOf(S) == CHOOSE s \in S : TRUE      \* the slots are interchangeable
Open(s)  == s # None /\ sock[s].phase = "open"
Stored(c) == {m \in Messages : posted[m] = c}
Alive    == {s \in Slots : sock[s].phase \in {"ticket", "opening", "open"}}
Ways     == Cardinality(Alive) + (IF timer THEN 1 ELSE 0) + strays

TypeOK ==
  /\ conv \in Convs
  /\ \A s \in Slots : /\ sock[s].phase \in {"free", "ticket", "opening", "open",
                                             "closing"}
                      /\ sock[s].conv \in IF sock[s].phase = "free" THEN {None} ELSE Convs
                      /\ sock[s].inbox \subseteq Messages
                      /\ sock[s].outbox \subseteq Mine
  /\ current \in Slots \cup {None}
  /\ connected \in BOOLEAN /\ timer \in BOOLEAN /\ strays \in Nat
  /\ history \subseteq [conv : Convs, served : BOOLEAN, msgs : SUBSET Messages]
  /\ shown \subseteq Messages
  /\ draft \in Mine \cup {None} /\ replyTo \in Messages \cup {None}
  /\ begun \in [Mine -> Convs \cup {None}] /\ sent \in [Mine -> Convs \cup {None}]
  /\ parent \in [Mine -> Messages \cup {None}]
  /\ posted \in [Messages -> Convs \cup {None}]
  /\ drops \in Nat /\ switches \in Nat
  /\ causes \subseteq {"crossed", "carried", "unready", "dropped", "refused"}

Asked(c) == [conv |-> c, served |-> FALSE, msgs |-> {}]

(* The window is mounted: connect() and fetchHistory have begun.           *)
Init ==
  /\ conv = First
  /\ sock = [s \in Slots |-> IF s = AnyOf(Slots)
                             THEN [Free EXCEPT !.phase = "ticket", !.conv = First]
                             ELSE Free]
  /\ current = None /\ connected = FALSE /\ timer = FALSE /\ strays = 0
  /\ history = {Asked(First)}
  /\ shown = {}
  /\ draft = None /\ replyTo = None
  /\ begun = [m \in Mine |-> None] /\ sent = [m \in Mine |-> None]
  /\ parent = [m \in Mine |-> None] /\ posted = [m \in Messages |-> None]
  /\ drops = 0 /\ switches = 0 /\ causes = {}

-----------------------------------------------------------------------------
(* connect: the URL is that of the conversation the window shows now; the  *)
(* ticket is awaited next.  board is the slots as the caller leaves them.  *)
Connect(board, c) ==
  LET unused == {x \in Slots : board[x].phase = "free"} IN
  /\ unused # {}
  /\ sock' = [board EXCEPT ![AnyOf(unused)] =
                 [Free EXCEPT !.phase = "ticket", !.conv = c]]

(* setTimeout into reconnectTimeoutRef, which forgets the one before.      *)
SetTimer ==
  /\ timer' = TRUE
  /\ strays' = IF timer THEN strays + 1 ELSE strays

(* The clean-up of the hook closes the current socket: what was sent is    *)
(* still transmitted, nothing is heard of it any more.                     *)
CleanedUp ==
  IF current = None THEN sock
  ELSE IF sock[current].outbox = {} THEN [sock EXCEPT ![current] = Free]
  ELSE [sock EXCEPT ![current] = [@ EXCEPT !.phase = "closing", !.inbox = {}]]

(* Attempts and timers the clean-up does not know of.                      *)
Unseen == strays > 0 \/ Alive \ {current} # {}

(* What the selection of another conversation crosses, and what of the     *)
(* input it carries along.                                                 *)
SwitchCauses == (IF Unseen \/ history # {} THEN {"crossed"} ELSE {}) \cup
                (IF draft # None \/ replyTo # None THEN {"carried"} ELSE {})

SelectKeeping(c) ==                         \* Fault: the timer is not cleared
  /\ c # conv /\ switches < MaxSwitches
  /\ switches' = switches + 1
  /\ conv' = c
  /\ Connect(CleanedUp, c)
  /\ current' = None
  /\ history' = history \cup {Asked(c)}
  /\ shown' = {}
  /\ causes' = causes \cup SwitchCauses
  /\ UNCHANGED <<connected, timer, strays, input, posted, drops>>

SelectWithoutClosing(c) ==                  \* Fault: the socket is left open
  /\ c # conv /\ switches < MaxSwitches
  /\ switches' = switches + 1
  /\ conv' = c
  /\ Connect(sock, c)
  /\ timer' = FALSE
  /\ history' = history \cup {Asked(c)}
  /\ shown' = {}
  /\ causes' = causes \cup SwitchCauses
  /\ UNCHANGED <<current, connected, strays, input, posted, drops>>

SelectShowing(c) ==                         \* Fault: the messages are kept
  /\ c # conv /\ switches < MaxSwitches
  /\ switches' = switches + 1
  /\ conv' = c
  /\ Connect(CleanedUp, c)
  /\ current' = None
  /\ timer' = FALSE
  /\ history' = history \cup {Asked(c)}
  /\ causes' = causes \cup SwitchCauses
  /\ UNCHANGED <<connected, strays, shown, input, posted, drops>>

(* The user selects another conversation.  The clean-up of the hook clears *)
(* the timer it knows of and closes the current socket without its onclose,*)
(* so isConnected stays; then the effects of the new conversation run.  The*)
(* input and the reply banner are not touched.                             *)
SelectConversation(c) ==
  /\ c # conv /\ switches < MaxSwitches
  /\ switches' = switches + 1
  /\ conv' = c
  /\ Connect(CleanedUp, c)
  /\ current' = None
  /\ timer' = FALSE
  /\ history' = history \cup {Asked(c)}
  /\ shown' = {}
  /\ causes' = causes \cup SwitchCauses
  /\ UNCHANGED <<connected, strays, input, posted, drops>>

(* The record of the user is stored anew: the effect of the hook depends on*)
(* it and starts over for the same conversation.                           *)
UserChanges ==
  /\ switches < MaxSwitches
  /\ switches' = switches + 1
  /\ Connect(CleanedUp, conv)
  /\ current' = None
  /\ timer' = FALSE
  /\ causes' = causes \cup (IF Unseen THEN {"crossed"} ELSE {})
  /\ UNCHANGED <<conv, connected, strays, history, shown, input, posted, drops>>

(* The ticket is there: the new socket becomes the current one.            *)
TicketArrives(s) ==
  /\ sock[s].phase = "ticket"
  /\ sock' = [sock EXCEPT ![s].phase = "opening"]
  /\ current' = s
  /\ UNCHANGED <<conv, connected, timer, strays, history, shown, input, posted,
                 bounds, causes>>

TicketRefused(s) ==
  /\ sock[s].phase = "ticket" /\ drops < MaxDrops
  /\ drops' = drops + 1
  /\ sock' = [sock EXCEPT ![s] = Free]
  /\ SetTimer
  /\ UNCHANGED <<conv, current, connected, history, shown, input, posted,
                 switches, causes>>

(* onopen: the server has accepted and joined the socket to its room.      *)
Opens(s) ==
  /\ sock[s].phase = "opening"
  /\ sock' = [sock EXCEPT ![s].phase = "open"]
  /\ connected' = TRUE
  /\ UNCHANGED <<conv, current, timer, strays, history, shown, input, posted,
                 bounds, causes>>

ClosesForGood(s) ==                         \* Fault: no timer is set
  /\ sock[s].phase \in {"opening", "open"} /\ drops < MaxDrops
  /\ drops' = drops + 1
  /\ sock' = [sock EXCEPT ![s] = Free]
  /\ current' = None
  /\ connected' = FALSE
  /\ causes' = IF sock[s].outbox = {} THEN causes ELSE causes \cup {"dropped"}
  /\ UNCHANGED <<conv, timer, strays, history, shown, input, posted, switches>>

(* onclose, whichever socket it is of: socketRef is emptied and a timer    *)
(* set.  What was on the way in either direction is gone.                  *)
Closes(s) ==
  /\ sock[s].phase \in {"opening", "open"} /\ drops < MaxDrops
  /\ drops' = drops + 1
  /\ sock' = [sock EXCEPT ![s] = Free]
  /\ current' = None
  /\ connected' = FALSE
  /\ SetTimer
  /\ causes' = IF sock[s].outbox = {} THEN causes ELSE causes \cup {"dropped"}
  /\ UNCHANGED <<conv, history, shown, input, posted, switches>>

(* The connection is gone before what a closed socket sent is transmitted. *)
ClosingLost(s) ==
  /\ sock[s].phase = "closing" /\ drops < MaxDrops
  /\ drops' = drops + 1
  /\ sock' = [sock EXCEPT ![s] = Free]
  /\ causes' = causes \cup {"dropped"}
  /\ UNCHANGED <<conv, window, history, shown, input, posted, switches>>

TimerFires ==
  /\ \/ timer /\ timer' = FALSE /\ UNCHANGED strays
     \/ strays > 0 /\ strays' = strays - 1 /\ UNCHANGED timer
  /\ Connect(sock, conv)
  /\ UNCHANGED <<conv, current, connected, history, shown, input, posted,
                 bounds, causes>>

-----------------------------------------------------------------------------
(* Messages                                                                *)

(* The room of c: every socket joined to it hears m, the sender's too.     *)
Broadcast(board, c, m) ==
  [s \in Slots |-> IF board[s].phase = "open" /\ board[s].conv = c
                   THEN [board[s] EXCEPT !.inbox = @ \cup {m}] ELSE board[s]]

(* The input is enabled by isConnected.                                    *)
BeginMessage(m) ==
  /\ connected /\ draft = None /\ begun[m] = None
  /\ draft' = m
  /\ begun' = [begun EXCEPT ![m] = conv]
  /\ UNCHANGED <<conv, sock, window, history, shown, replyTo, sent, parent, posted,
                 bounds, causes>>

(* setReplyTo: a message of the window, or none.                           *)
SetReply(m) ==
  /\ m \in shown \cup {None}
  /\ replyTo' = m
  /\ UNCHANGED <<conv, sock, window, history, shown, draft, begun, sent, parent, posted,
                 bounds, causes>>

SendEarly ==                                \* Fault: connected not looked at
  /\ draft # None
  /\ sent' = [sent EXCEPT ![draft] = conv]
  /\ parent' = [parent EXCEPT ![draft] = replyTo]
  /\ draft' = None /\ replyTo' = None
  /\ sock' = IF Open(current)
             THEN [sock EXCEPT ![current].outbox = @ \cup {draft}] ELSE sock
  /\ causes' = IF connected /\ ~Open(current) THEN causes \cup {"unready"} ELSE causes
  /\ UNCHANGED <<conv, window, history, shown, begun, posted, bounds>>

(* handleSend: the input and the banner are emptied in any case;           *)
(* sendMessage drops the message unless the current socket is open.        *)
SendMessage ==
  /\ connected /\ draft # None
  /\ sent' = [sent EXCEPT ![draft] = conv]
  /\ parent' = [parent EXCEPT ![draft] = replyTo]
  /\ draft' = None /\ replyTo' = None
  /\ sock' = IF Open(current)
             THEN [sock EXCEPT ![current].outbox = @ \cup {draft}] ELSE sock
  /\ causes' = IF Open(current) THEN causes ELSE causes \cup {"unready"}
  /\ UNCHANGED <<conv, window, history, shown, begun, posted, bounds>>

(* The consumer of the socket takes m; a closed socket is gone when all is *)
(* taken.                                                                  *)
Taken(s, m) ==
  IF sock[s].phase = "closing" /\ sock[s].outbox = {m} THEN [sock EXCEPT ![s] = Free]
  ELSE [sock EXCEPT ![s].outbox = @ \ {m}]

(* handle_chat_message stores m in the conversation of the consumer, as a  *)
(* reply to whatever message it names, and sends it to the room ...        *)
ServerStores(s, m) ==
  /\ m \in sock[s].outbox
  /\ posted' = [posted EXCEPT ![m] = sock[s].conv]
  /\ sock' = Broadcast(Taken(s, m), sock[s].conv, m)
  /\ UNCHANGED <<conv, window, history, shown, input, bounds, causes>>

(* ... or cannot save it and answers chat.error, which the window logs.    *)
ServerFails(s, m) ==
  /\ m \in sock[s].outbox /\ drops < MaxDrops
  /\ drops' = drops + 1
  /\ sock' = Taken(s, m)
  /\ causes' = causes \cup {"refused"}
  /\ UNCHANGED <<conv, window, history, shown, input, posted, switches>>

OthersPost(m, c) ==
  /\ posted[m] = None
  /\ posted' = [posted EXCEPT ![m] = c]
  /\ sock' = Broadcast(sock, c, m)
  /\ UNCHANGED <<conv, window, history, shown, input, bounds, causes>>

(* onmessage: appended unless its id is there already.                     *)
MessageHeard(s, m) ==
  /\ Open(s) /\ m \in sock[s].inbox
  /\ sock' = [sock EXCEPT ![s].inbox = @ \ {m}]
  /\ shown' = shown \cup {m}
  /\ UNCHANGED <<conv, window, history, input, posted, bounds, causes>>

HistoryServed(h) ==
  /\ h \in history /\ ~h.served
  /\ history' = (history \ {h}) \cup
                {[conv |-> h.conv, served |-> TRUE, msgs |-> Stored(h.conv)]}
  /\ UNCHANGED <<conv, sock, window, shown, input, posted, bounds, causes>>

(* setMessages with the answer, whatever the window shows by now.          *)
HistoryShown(h) ==
  /\ h \in history /\ h.served
  /\ history' = history \ {h}
  /\ shown' = h.msgs
  /\ UNCHANGED <<conv, sock, window, input, posted, bounds, causes>>

HistoryFails(h) ==
  /\ h \in history /\ ~h.served /\ drops < MaxDrops
  /\ history' = history \ {h}
  /\ drops' = drops + 1
  /\ UNCHANGED <<conv, sock, window, shown, input, posted, switches, causes>>

-----------------------------------------------------------------------------
SocketStep(s) == \/ TicketArrives(s) \/ TicketRefused(s) \/ Opens(s)
                 \/ \E m \in Messages : \/ MessageHeard(s, m)
                                          \/ ServerStores(s, m) \/ ServerFails(s, m)

Next ==
  \/ \E c \in Convs : SelectConversation(c)
  \/ UserChanges
  \/ \E s \in Slots : SocketStep(s) \/ Closes(s) \/ ClosingLost(s)
  \/ TimerFires
  \/ \E m \in Mine : BeginMessage(m)
  \/ \E m \in Messages \cup {None} : SetReply(m)
  \/ SendMessage
  \/ \E m \in Theirs, c \in Convs : OthersPost(m, c)
  \/ \E h \in history : HistoryServed(h) \/ HistoryShown(h) \/ HistoryFails(h)

Spec == Init /\ [][Next]_vars

(* Tickets, handshakes and messages come through or fail; a timer fires.   *)
(* The user, the others and the network promise nothing.                   *)
Fairness == /\ \A s \in Slots : WF_vars(SocketStep(s))
            /\ WF_vars(TimerFires)

FairSpec == Spec /\ Fairness
-----------------------------------------------------------------------------
(* What the window promises where no switch crosses an attempt to connect, *)
(* a request for the history, or a timer that is lost sight of: the code   *)
(* does not survive those ("crossed").                                     *)

(* A message is posted in the conversation the window showed when it was   *)
(* sent.  If no text and no reply banner was carried into another          *)
(* conversation, that is the one it was begun in, and the message it       *)
(* replies to is one of the same conversation (useChat, whose clean-up     *)
(* closes the socket; ChatWindow; handle_chat_message, which stores what a *)
(* socket sends and any parent it names).                                  *)
MessagesStayInTheirConversation ==
  "crossed" \notin causes =>
     \A m \in Mine : posted[m] # None =>
        /\ posted[m] = sent[m]
        /\ "carried" \notin causes =>
             posted[m] = begun[m] /\ (parent[m] # None => posted[parent[m]] = posted[m])

(* The window never shows a message of another conversation (ChatWindow).  *)
WindowShowsItsConversation ==
  "crossed" \notin causes => \A m \in shown : posted[m] = conv

(* There is one socket, or one attempt at one, or one timer, at any time:  *)
(* neither are they multiplied nor do they die out (connect, onclose).     *)
OneWayToConnect ==
  "crossed" \notin causes => Ways = 1

(* A window without a connection gets one again (useChat's reconnection).  *)
ConnectionReturns ==
  ~Open(current) ~> Open(current) \/ "crossed" \in causes

(* A message that is sent reaches the server, whatever is selected or      *)
(* dropped besides, unless isConnected was out of date when it was sent,   *)
(* its socket was dropped before it was taken, or the server could not     *)
(* save it (handleSend, sendMessage, handle_chat_message).                 *)
SentArrives ==
  \A m \in Mine :
     sent[m] # None ~>
        posted[m] # None \/ causes \cap {"unready", "dropped", "refused"} # {}
=============================================================================
