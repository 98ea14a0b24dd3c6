-------------------------- MODULE ChatSessionProofs --------------------------
(* Proofs about ChatSession for any number of conversations, sockets and    *)
(* messages.                                                                *)
EXTENDS ChatSession, FiniteSetTheorems, TLAPS

-----------------------------------------------------------------------------
(* The strengthening.                                                       *)

Socks == [phase : {"free", "ticket", "opening", "open", "closing"},
          conv : Convs \cup {None}, inbox : SUBSET Messages, outbox : SUBSET Mine]

(* The slots: a free one is Free, any other belongs to a conversation.      *)
Board(b) == /\ b \in [Slots -> Socks]
            /\ \A s \in Slots : b[s].phase = "free" => b[s] = Free
            /\ \A s \in Slots : b[s].phase # "free" => b[s].conv \in Convs

(* The other conjuncts of TypeOK, in three parts.                           *)
WindowType ==
  /\ conv \in Convs
  /\ current \in Slots \cup {None}
  /\ connected \in BOOLEAN /\ timer \in BOOLEAN /\ strays \in Nat
  /\ drops \in Nat /\ switches \in Nat
  /\ causes \subseteq {"crossed", "carried", "unready", "dropped", "refused"}

MessageType ==
  /\ history \subseteq [conv : Convs, served : BOOLEAN, msgs : SUBSET Messages]
  /\ shown \subseteq Messages
  /\ posted \in [Messages -> Convs \cup {None}]

InputType ==
  /\ draft \in Mine \cup {None} /\ replyTo \in Messages \cup {None}
  /\ begun \in [Mine -> Convs \cup {None}] /\ sent \in [Mine -> Convs \cup {None}]
  /\ parent \in [Mine -> Messages \cup {None}]

Types == Board(sock) /\ WindowType /\ MessageType /\ InputType

(* A message is begun, sent and stored once each and in that order, it is   *)
(* on its way to the server in one socket, and what is on its way to the    *)
(* window is where it says it is.                                           *)
WrittenOnce ==
  /\ \A m \in Mine : posted[m] # None => sent[m] # None
  /\ \A m \in Mine : sent[m] # None => begun[m] # None
  /\ draft # None => begun[draft] # None /\ sent[draft] = None
  /\ \A s \in Slots : \A m \in sock[s].outbox : sent[m] # None /\ posted[m] = None
  /\ \A s, u \in Slots : s # u => sock[s].outbox \cap sock[u].outbox = {}
  /\ \A s \in Slots : \A m \in sock[s].inbox : posted[m] = sock[s].conv
  /\ \A h \in history : \A m \in h.msgs : posted[m] = h.conv

(* Where no switch has crossed anything, whatever is under way belongs to   *)
(* the conversation of the window, and what a socket has yet to transmit to *)
(* the conversation of the socket.                                          *)
AllOfThisOne ==
  "crossed" \notin causes =>
    /\ \A s \in Alive : sock[s].conv = conv
    /\ \A h \in history : h.conv = conv
    /\ \A s \in Slots : \A m \in sock[s].outbox : sent[m] = sock[s].conv

(* Where no switch has carried anything either, the input and the banner    *)
(* belong to the conversation of the window, and so did what was sent.      *)
InputOfThisOne ==
  "crossed" \notin causes /\ "carried" \notin causes =>
    /\ draft # None => begun[draft] = conv
    /\ replyTo # None => posted[replyTo] = conv
    /\ \A m \in Mine : sent[m] # None =>
          begun[m] = sent[m] /\ (parent[m] # None => posted[parent[m]] = sent[m])

(* A pending timer excludes sockets, and no two of either are there.        *)
OneWay ==
  "crossed" \notin causes =>
    /\ strays = 0
    /\ timer => Alive = {}
    /\ ~timer => \E s \in Slots : Alive = {s}

IInv == /\ Types /\ WrittenOnce /\ AllOfThisOne /\ InputOfThisOne /\ OneWay
        /\ MessagesStayInTheirConversation /\ WindowShowsItsConversation

-----------------------------------------------------------------------------
(* Lemmas about the operators.                                              *)

(* connect takes a free slot and nothing else.                              *)
Attempt(c) == [Free EXCEPT !.phase = "ticket", !.conv = c]

LEMMA ConnectFacts ==
  ASSUME NEW board, NEW c, Connect(board, c)
  PROVE  \E s \in Slots : board[s].phase = "free" /\ sock' = [board EXCEPT ![s] = Attempt(c)]
<1> DEFINE unused == {x \in Slots : board[x].phase = "free"}
<1>1. AnyOf(unused) \in unused
  BY DEF Connect, AnyOf
<1> QED BY <1>1 DEF Connect, Attempt

LEMMA SockKinds ==
  ASSUME ChatAssumption
  PROVE  /\ Free \in Socks /\ Free.phase = "free" /\ Free.conv = None
         /\ Free.inbox = {} /\ Free.outbox = {}
         /\ \A c \in Convs : /\ Attempt(c) \in Socks /\ Attempt(c).phase = "ticket"
                             /\ Attempt(c).conv = c
                             /\ Attempt(c).inbox = {} /\ Attempt(c).outbox = {}
BY DEF Free, Attempt, Socks

LEMMA TypesGiveTypeOK == ChatAssumption /\ Types => TypeOK
BY SockKinds DEF Types, Board, WindowType, MessageType, InputType, TypeOK, Socks

(* One slot changed.                                                        *)
LEMMA BoardExcept ==
  ASSUME NEW b, Board(b), NEW s \in Slots, NEW k \in Socks,
         k = Free \/ (k.phase # "free" /\ k.conv \in Convs)
  PROVE  Board([b EXCEPT ![s] = k])
<1> DEFINE new == [b EXCEPT ![s] = k]
<1>1. new \in [Slots -> Socks] /\ \A u \in Slots : new[u] = IF u = s THEN k ELSE b[u]
  BY DEF Board
<1>2. Free.phase = "free"
  BY DEF Free
<1> HIDE DEF new
<1>3. Board(new)
  BY <1>1, <1>2 DEF Board
<1> QED BY <1>3 DEF new

(* What the server sends out reaches open sockets of that room only.        *)
LEMMA BroadcastFacts ==
  ASSUME NEW b, Board(b), NEW c \in Convs, NEW m \in Messages
  PROVE  /\ Board(Broadcast(b, c, m))
         /\ \A s \in Slots :
              /\ Broadcast(b, c, m)[s].phase = b[s].phase
              /\ Broadcast(b, c, m)[s].conv = b[s].conv
              /\ Broadcast(b, c, m)[s].outbox = b[s].outbox
              /\ \A x \in Broadcast(b, c, m)[s].inbox :
                    x \in b[s].inbox \/ (x = m /\ b[s].conv = c)
<1> DEFINE new == Broadcast(b, c, m)
<1>1. /\ new \in [Slots -> Socks]
      /\ \A s \in Slots : /\ new[s].phase = b[s].phase
                          /\ new[s].conv = b[s].conv
                          /\ new[s].outbox = b[s].outbox
                          /\ \A x \in new[s].inbox :
                                x \in b[s].inbox \/ (x = m /\ b[s].conv = c)
                          /\ b[s].phase = "free" => new[s] = b[s]
  BY DEF Broadcast, Board, Socks
<1> HIDE DEF new
<1>2. Board(new)
  BY <1>1 DEF Board
<1> QED BY <1>1, <1>2 DEF new

(* The clean-up touches the current socket only, which is gone or has to    *)
(* transmit what it was given.                                              *)
LEMMA CleanedFacts ==
  ASSUME ChatAssumption, Types
  PROVE  /\ Board(CleanedUp)
         /\ \A s \in Slots :
              IF s # current THEN CleanedUp[s] = sock[s]
              ELSE \/ CleanedUp[s] = Free
                   \/ /\ CleanedUp[s].phase = "closing"
                      /\ CleanedUp[s].conv = sock[s].conv
                      /\ CleanedUp[s].outbox = sock[s].outbox
                      /\ CleanedUp[s].inbox = {}
<1> USE SockKinds DEF Types
<1>1. CASE current = None
  BY <1>1 DEF CleanedUp, ChatAssumption
<1>2. CASE current \in Slots /\ current # None /\ sock[current].outbox = {}
  <2>1. CleanedUp = [sock EXCEPT ![current] = Free]
    BY <1>2 DEF CleanedUp
  <2>2. Board(CleanedUp)
    BY <1>2, <2>1, BoardExcept
  <2> QED BY <1>2, <2>1, <2>2 DEF Board
<1>3. CASE current \in Slots /\ current # None /\ sock[current].outbox # {}
  <2> DEFINE k == [sock[current] EXCEPT !.phase = "closing", !.inbox = {}]
  <2>1. CleanedUp = [sock EXCEPT ![current] = k]
    BY <1>3 DEF CleanedUp
  <2>2. sock[current].phase # "free" /\ sock[current] \in Socks
    BY <1>3 DEF Board
  <2>3. /\ k \in Socks /\ k.phase = "closing" /\ k.conv = sock[current].conv
        /\ k.conv \in Convs /\ k.outbox = sock[current].outbox /\ k.inbox = {}
    <3>1. sock[current].conv \in Convs
      BY <1>3, <2>2 DEF Board
    <3> QED BY <2>2, <3>1 DEF Socks
  <2> HIDE DEF k
  <2>4. Board(CleanedUp)
    BY <1>3, <2>1, <2>3, BoardExcept
  <2> QED BY <1>3, <2>1, <2>3, <2>4 DEF Board
<1> QED BY <1>1, <1>2, <1>3 DEF WindowType

(* The slots when the hook starts over for c: a new attempt beside what the *)
(* clean-up leaves.                                                         *)
LEMMA Restarted ==
  ASSUME ChatAssumption, Types, NEW c \in Convs, Connect(CleanedUp, c)
  PROVE  /\ Board(sock')
         /\ \E s \in Slots : /\ CleanedUp[s].phase = "free" /\ sock'[s] = Attempt(c)
                             /\ \A u \in Slots : u # s => sock'[u] = CleanedUp[u]
<1>1. PICK s \in Slots : /\ CleanedUp[s].phase = "free"
                         /\ sock' = [CleanedUp EXCEPT ![s] = Attempt(c)]
  BY ConnectFacts
<1>2. Board(CleanedUp)
  BY CleanedFacts
<1>3. Attempt(c) \in Socks /\ Attempt(c).phase # "free" /\ Attempt(c).conv \in Convs
  BY SockKinds
<1>4. Board(sock')
  BY <1>1, <1>2, <1>3, BoardExcept
<1> QED BY <1>1, <1>2, <1>4 DEF Board

LEMMA Fired ==
  ASSUME ChatAssumption, Types, TimerFires
  PROVE  /\ Board(sock') /\ conv \in Convs
         /\ \E s \in Slots : /\ sock[s].phase = "free" /\ sock'[s] = Attempt(conv)
                             /\ \A u \in Slots : u # s => sock'[u] = sock[u]
<1>1. Connect(sock, conv) /\ conv \in Convs
  BY DEF TimerFires, Types, WindowType
<1>2. PICK s \in Slots : sock[s].phase = "free" /\ sock' = [sock EXCEPT ![s] = Attempt(conv)]
  BY <1>1, ConnectFacts
<1>3. Attempt(conv) \in Socks /\ Attempt(conv).phase # "free" /\ Attempt(conv).conv \in Convs
  BY <1>1, SockKinds
<1>4. Board(sock')
  BY <1>2, <1>3, BoardExcept DEF Types
<1> QED BY <1>1, <1>2, <1>4 DEF Types, Board

(* The socket m is taken from loses m, and goes with it if it was closed.   *)
LEMMA TakenFacts ==
  ASSUME ChatAssumption, Types, NEW s \in Slots, NEW m \in sock[s].outbox
  PROVE  /\ m \in Mine /\ sock[s].conv \in Convs /\ Board(Taken(s, m))
         /\ \A u \in Slots : u # s => Taken(s, m)[u] = sock[u]
         /\ Taken(s, m)[s].outbox = sock[s].outbox \ {m}
         /\ \/ /\ Taken(s, m)[s].phase = sock[s].phase
               /\ Taken(s, m)[s].conv = sock[s].conv
               /\ Taken(s, m)[s].inbox = sock[s].inbox
            \/ Taken(s, m)[s] = Free /\ sock[s].phase = "closing"
<1> USE SockKinds DEF Types
<1>1. m \in Mine /\ sock[s].phase # "free" /\ sock[s].conv \in Convs
  BY DEF Board, Socks
<1>2. CASE sock[s].phase = "closing" /\ sock[s].outbox = {m}
  <2>1. Taken(s, m) = [sock EXCEPT ![s] = Free]
    BY <1>2 DEF Taken
  <2>2. Board([sock EXCEPT ![s] = Free])
    BY BoardExcept
  <2> QED BY <1>1, <1>2, <2>1, <2>2 DEF Board
<1>3. CASE ~(sock[s].phase = "closing" /\ sock[s].outbox = {m})
  <2> DEFINE k == [sock[s] EXCEPT !.outbox = @ \ {m}]
  <2>1. Taken(s, m) = [sock EXCEPT ![s] = k]
    BY <1>3 DEF Taken, Board, Socks
  <2>2. /\ k \in Socks /\ k.phase = sock[s].phase /\ k.conv = sock[s].conv
        /\ k.inbox = sock[s].inbox /\ k.outbox = sock[s].outbox \ {m}
    BY DEF Board, Socks
  <2> HIDE DEF k
  <2>3. Board([sock EXCEPT ![s] = k])
    BY <1>1, <2>2, BoardExcept
  <2> QED BY <1>1, <2>1, <2>2, <2>3 DEF Board
<1> QED BY <1>2, <1>3

-----------------------------------------------------------------------------
(* Types.                                                                   *)

LEMMA BoardStep ==
  ASSUME ChatAssumption, Types, [Next]_vars
  PROVE  Board(sock')
<1> USE SockKinds DEF Types
<1>1. ASSUME NEW c \in Convs, SelectConversation(c)
      PROVE  Board(sock')
  BY <1>1, Restarted DEF SelectConversation
<1>2. CASE UserChanges
  BY <1>2, Restarted DEF UserChanges, WindowType
<1>3. ASSUME NEW s \in Slots, TicketArrives(s) \/ Opens(s)
      PROVE  Board(sock')
  BY <1>3 DEF TicketArrives, Opens, Board, Socks
<1>4. ASSUME NEW s \in Slots, TicketRefused(s) \/ Closes(s) \/ ClosingLost(s)
      PROVE  Board(sock')
  BY <1>4, BoardExcept DEF TicketRefused, Closes, ClosingLost
<1>5. CASE TimerFires
  BY <1>5, Fired
<1>6. CASE SendMessage
  <2>1. CASE Open(current)
    BY <1>6, <2>1 DEF SendMessage, Open, Board, Socks, WindowType, InputType
  <2>2. CASE ~Open(current)
    BY <1>6, <2>2 DEF SendMessage
  <2> QED BY <2>1, <2>2
<1>7. ASSUME NEW s \in Slots, NEW m \in Messages, ServerStores(s, m)
      PROVE  Board(sock')
  <2>1. sock' = Broadcast(Taken(s, m), sock[s].conv, m) /\ m \in sock[s].outbox
    BY <1>7 DEF ServerStores
  <2> QED BY <2>1, TakenFacts, BroadcastFacts
<1>8. ASSUME NEW s \in Slots, NEW m \in Messages, ServerFails(s, m)
      PROVE  Board(sock')
  BY <1>8, TakenFacts DEF ServerFails
<1>9. ASSUME NEW m \in Theirs, NEW c \in Convs, OthersPost(m, c)
      PROVE  Board(sock')
  BY <1>9, BroadcastFacts DEF OthersPost, Messages
<1>10. ASSUME NEW s \in Slots, NEW m \in Messages, MessageHeard(s, m)
       PROVE  Board(sock')
  BY <1>10 DEF MessageHeard, Open, Board, Socks
<1>11. ASSUME \/ \E m \in Mine : BeginMessage(m)
              \/ \E m \in Messages \cup {None} : SetReply(m)
              \/ \E h \in history : HistoryServed(h) \/ HistoryShown(h) \/ HistoryFails(h)
              \/ UNCHANGED vars
       PROVE  Board(sock')
  BY <1>11 DEF BeginMessage, SetReply, HistoryServed, HistoryShown, HistoryFails, vars
<1> QED
  BY <1>1, <1>2, <1>3, <1>4, <1>5, <1>6, <1>7, <1>8, <1>9, <1>10, <1>11 DEF Next, SocketStep

LEMMA WindowTypeStep ==
  ASSUME ChatAssumption, Types, [Next]_vars
  PROVE  WindowType'
<1> USE DEF Types
<1>1. ASSUME NEW c \in Convs, SelectConversation(c)
      PROVE  WindowType'
  <2>1. causes' \subseteq {"crossed", "carried", "unready", "dropped", "refused"}
    BY <1>1 DEF SelectConversation, SwitchCauses, WindowType
  <2>2. /\ conv' \in Convs /\ current' = None /\ timer' = FALSE
        /\ connected' = connected /\ strays' = strays /\ drops' = drops
        /\ switches' = switches + 1
    BY <1>1 DEF SelectConversation, WindowType
  <2>3. switches' \in Nat /\ strays' \in Nat /\ drops' \in Nat
    BY <2>2 DEF WindowType
  <2>4. connected' \in BOOLEAN /\ timer' \in BOOLEAN
    BY <2>2 DEF WindowType
  <2> QED BY <2>1, <2>2, <2>3, <2>4 DEF WindowType
<1>2. CASE UserChanges
  <2>1. causes' \subseteq {"crossed", "carried", "unready", "dropped", "refused"}
    BY <1>2 DEF UserChanges, WindowType
  <2>2. /\ conv' \in Convs /\ current' = None /\ timer' = FALSE
        /\ connected' = connected /\ strays' = strays /\ drops' = drops
        /\ switches' = switches + 1
    BY <1>2 DEF UserChanges, WindowType
  <2>3. switches' \in Nat /\ strays' \in Nat /\ drops' \in Nat
    BY <2>2 DEF WindowType
  <2>4. connected' \in BOOLEAN /\ timer' \in BOOLEAN
    BY <2>2 DEF WindowType
  <2> QED BY <2>1, <2>2, <2>3, <2>4 DEF WindowType
<1>3. ASSUME NEW s \in Slots, TicketArrives(s) \/ Opens(s)
      PROVE  WindowType'
  BY <1>3 DEF TicketArrives, Opens, bounds, WindowType
<1>4. ASSUME NEW s \in Slots, TicketRefused(s)
      PROVE  WindowType'
  <2>1. strays' \in Nat /\ timer' \in BOOLEAN /\ drops' \in Nat
    BY <1>4 DEF TicketRefused, SetTimer, WindowType
  <2> QED BY <1>4, <2>1 DEF TicketRefused, WindowType
<1>5. ASSUME NEW s \in Slots, Closes(s)
      PROVE  WindowType'
  <2>1. causes' \subseteq {"crossed", "carried", "unready", "dropped", "refused"}
    BY <1>5 DEF Closes, WindowType
  <2>2. strays' \in Nat /\ timer' \in BOOLEAN /\ drops' \in Nat
    BY <1>5 DEF Closes, SetTimer, WindowType
  <2> QED BY <1>5, <2>1, <2>2 DEF Closes, WindowType
<1>6. ASSUME NEW s \in Slots, ClosingLost(s)
      PROVE  WindowType'
  BY <1>6 DEF ClosingLost, window, WindowType
<1>7. CASE TimerFires
  <2>1. \/ timer' = FALSE /\ strays' = strays
        \/ strays > 0 /\ strays' = strays - 1 /\ timer' = timer
    BY <1>7 DEF TimerFires
  <2>2. strays' \in Nat
    BY <2>1 DEF WindowType
  <2>3. timer' \in BOOLEAN
    BY <2>1 DEF WindowType
  <2> QED BY <1>7, <2>2, <2>3 DEF TimerFires, bounds, WindowType
<1>8. CASE SendMessage
  <2>1. causes' \subseteq {"crossed", "carried", "unready", "dropped", "refused"}
    BY <1>8 DEF SendMessage, WindowType
  <2> QED BY <1>8, <2>1 DEF SendMessage, window, bounds, WindowType
<1>9. ASSUME NEW s \in Slots, NEW m \in Messages,
             ServerStores(s, m) \/ ServerFails(s, m) \/ MessageHeard(s, m)
      PROVE  WindowType'
  BY <1>9 DEF ServerStores, ServerFails, MessageHeard, window, bounds, WindowType
<1>10. ASSUME \/ \E m \in Theirs, c \in Convs : OthersPost(m, c)
              \/ \E m \in Mine : BeginMessage(m)
              \/ \E m \in Messages \cup {None} : SetReply(m)
              \/ \E h \in history : HistoryServed(h) \/ HistoryShown(h) \/ HistoryFails(h)
              \/ UNCHANGED vars
       PROVE  WindowType'
  BY <1>10 DEF OthersPost, BeginMessage, SetReply, HistoryServed, HistoryShown, HistoryFails,
              vars, window, bounds, WindowType
<1> QED
  BY <1>1, <1>2, <1>3, <1>4, <1>5, <1>6, <1>7, <1>8, <1>9, <1>10 DEF Next, SocketStep

LEMMA MessageTypeStep ==
  ASSUME ChatAssumption, Types, [Next]_vars
  PROVE  MessageType'
<1> USE DEF Types
<1>1. ASSUME NEW c \in Convs, SelectConversation(c)
      PROVE  MessageType'
  <2>1. Asked(c) \in [conv : Convs, served : BOOLEAN, msgs : SUBSET Messages]
    BY DEF Asked
  <2> QED BY <1>1, <2>1 DEF SelectConversation, MessageType
<1>2. ASSUME NEW s \in Slots, NEW m \in Messages, ServerStores(s, m)
      PROVE  MessageType'
  <2>1. sock[s].conv \in Convs
    BY <1>2, TakenFacts DEF ServerStores
  <2> QED BY <1>2, <2>1 DEF ServerStores, MessageType
<1>3. ASSUME NEW m \in Theirs, NEW c \in Convs, OthersPost(m, c)
      PROVE  MessageType'
  BY <1>3 DEF OthersPost, MessageType, Messages
<1>4. ASSUME NEW s \in Slots, NEW m \in Messages, MessageHeard(s, m)
      PROVE  MessageType'
  BY <1>4 DEF MessageHeard, MessageType
<1>5. ASSUME NEW h \in history, HistoryServed(h)
      PROVE  MessageType'
  <2>1. [conv |-> h.conv, served |-> TRUE, msgs |-> Stored(h.conv)]
          \in [conv : Convs, served : BOOLEAN, msgs : SUBSET Messages]
    BY DEF Stored, MessageType
  <2> QED BY <1>5, <2>1 DEF HistoryServed, MessageType
<1>6. ASSUME NEW h \in history, HistoryShown(h) \/ HistoryFails(h)
      PROVE  MessageType'
  BY <1>6 DEF HistoryShown, HistoryFails, MessageType
<1>7. ASSUME \/ UserChanges \/ TimerFires \/ SendMessage
             \/ \E s \in Slots : \/ TicketArrives(s) \/ TicketRefused(s) \/ Opens(s)
                                  \/ Closes(s) \/ ClosingLost(s)
             \/ \E s \in Slots, m \in Messages : ServerFails(s, m)
             \/ \E m \in Mine : BeginMessage(m)
             \/ \E m \in Messages \cup {None} : SetReply(m)
             \/ UNCHANGED vars
      PROVE  MessageType'
  BY <1>7 DEF UserChanges, TimerFires, SendMessage, TicketArrives, TicketRefused, Opens,
              Closes, ClosingLost, ServerFails, BeginMessage, SetReply, vars, MessageType
<1> QED BY <1>1, <1>2, <1>3, <1>4, <1>5, <1>6, <1>7 DEF Next, SocketStep

(* The steps that leave the input and what was typed as they are.           *)
LEMMA InputKept ==
  ASSUME [Next]_vars
  PROVE  \/ UNCHANGED input
         \/ \E m \in Mine : BeginMessage(m)
         \/ \E m \in Messages \cup {None} : SetReply(m)
         \/ SendMessage
BY DEF Next, SocketStep, vars, SelectConversation, UserChanges, TicketArrives, TicketRefused,
       Opens, Closes, ClosingLost, TimerFires, ServerStores, ServerFails, OthersPost,
       MessageHeard, HistoryServed, HistoryShown, HistoryFails

LEMMA InputTypeStep ==
  ASSUME ChatAssumption, Types, [Next]_vars
  PROVE  InputType'
<1> USE DEF Types
<1>1. CASE UNCHANGED input
  BY <1>1 DEF input, InputType
<1>2. ASSUME NEW m \in Mine, BeginMessage(m)
      PROVE  InputType'
  BY <1>2 DEF BeginMessage, InputType, WindowType
<1>3. ASSUME NEW m \in Messages \cup {None}, SetReply(m)
      PROVE  InputType'
  BY <1>3 DEF SetReply, InputType
<1>4. CASE SendMessage
  BY <1>4 DEF SendMessage, InputType, WindowType
<1> QED BY <1>1, <1>2, <1>3, <1>4, InputKept

LEMMA TypeStep ==
  ASSUME ChatAssumption, Types, [Next]_vars
  PROVE  Types'
<1>1. Board(sock')
  BY BoardStep
<1> QED BY <1>1, WindowTypeStep, MessageTypeStep, InputTypeStep DEF Types, Board

-----------------------------------------------------------------------------
(* What is written down once stays where it is.                             *)

(* No slot gains a message, and one with messages keeps its conversation.   *)
Quieter ==
  \A s \in Slots :
    /\ \A m \in sock'[s].outbox : m \in sock[s].outbox /\ sock'[s].conv = sock[s].conv
    /\ \A m \in sock'[s].inbox  : m \in sock[s].inbox  /\ sock'[s].conv = sock[s].conv

(* What is kept by the steps that neither begin, send nor store a message.  *)
Texts == <<draft, begun, sent, parent, posted>>

QuietStep ==
  \/ \E c \in Convs : SelectConversation(c)
  \/ UserChanges
  \/ \E s \in Slots : \/ TicketArrives(s) \/ TicketRefused(s) \/ Opens(s) \/ Closes(s)
                      \/ ClosingLost(s)
  \/ TimerFires
  \/ \E s \in Slots, m \in Messages : MessageHeard(s, m) \/ ServerFails(s, m)
  \/ \E m \in Messages \cup {None} : SetReply(m)
  \/ \E h \in history : HistoryServed(h) \/ HistoryShown(h) \/ HistoryFails(h)
  \/ UNCHANGED vars

LEMMA QuietTexts ==
  ASSUME QuietStep
  PROVE  UNCHANGED Texts
BY DEF QuietStep, Texts, vars, input, SelectConversation, UserChanges, TicketArrives,
       TicketRefused, Opens, Closes, ClosingLost, TimerFires, MessageHeard, ServerFails,
       SetReply, HistoryServed, HistoryShown, HistoryFails

LEMMA QuietStepQuieter ==
  ASSUME ChatAssumption, Types, QuietStep
  PROVE  Quieter
<1> USE SockKinds DEF Types
<1>1. ASSUME NEW c \in Convs, Connect(CleanedUp, c)
      PROVE  Quieter
  <2>1. PICK s \in Slots : /\ sock'[s] = Attempt(c)
                           /\ \A u \in Slots : u # s => sock'[u] = CleanedUp[u]
    BY <1>1, Restarted
  <2>2. \A u \in Slots : \/ sock'[u].outbox = {} /\ sock'[u].inbox = {}
                         \/ sock'[u] = sock[u]
                         \/ /\ sock'[u].outbox = sock[u].outbox /\ sock'[u].inbox = {}
                            /\ sock'[u].conv = sock[u].conv
    BY <2>1, CleanedFacts
  <2> QED BY <2>2 DEF Quieter
<1>2. ASSUME NEW s \in Slots, TicketArrives(s) \/ Opens(s)
      PROVE  Quieter
  BY <1>2 DEF TicketArrives, Opens, Board, Quieter, Socks
<1>3. ASSUME NEW s \in Slots, TicketRefused(s) \/ Closes(s) \/ ClosingLost(s)
      PROVE  Quieter
  BY <1>3 DEF TicketRefused, Closes, ClosingLost, Board, Quieter
<1>4. CASE TimerFires
  <2>1. PICK s \in Slots : /\ sock'[s] = Attempt(conv)
                           /\ \A u \in Slots : u # s => sock'[u] = sock[u]
    BY <1>4, Fired
  <2> QED BY <2>1 DEF Quieter, WindowType
<1>5. ASSUME NEW s \in Slots, NEW m \in Messages, MessageHeard(s, m)
      PROVE  Quieter
  BY <1>5 DEF MessageHeard, Open, Board, Quieter, Socks
<1>6. ASSUME NEW s \in Slots, NEW m \in Messages, ServerFails(s, m)
      PROVE  Quieter
  <2>1. sock' = Taken(s, m) /\ m \in sock[s].outbox
    BY <1>6 DEF ServerFails
  <2>2. /\ \A u \in Slots : u # s => sock'[u] = sock[u]
        /\ sock'[s].outbox = sock[s].outbox \ {m}
        /\ \/ sock'[s].conv = sock[s].conv /\ sock'[s].inbox = sock[s].inbox
           \/ sock'[s] = Free
    BY <2>1, TakenFacts
  <2> QED BY <2>2 DEF Quieter
<1>7. ASSUME sock' = sock
      PROVE  Quieter
  BY <1>7 DEF Quieter
<1>8. ASSUME \/ \E m \in Messages \cup {None} : SetReply(m)
             \/ \E h \in history : HistoryServed(h) \/ HistoryShown(h) \/ HistoryFails(h)
             \/ UNCHANGED vars
      PROVE  sock' = sock
  BY <1>8 DEF SetReply, HistoryServed, HistoryShown, HistoryFails, vars
<1>9. ASSUME NEW c \in Convs, SelectConversation(c)
      PROVE  Quieter
  BY <1>1, <1>9 DEF SelectConversation
<1>10. CASE UserChanges
  BY <1>1, <1>10 DEF UserChanges, WindowType
<1> QED BY <1>2, <1>3, <1>4, <1>5, <1>6, <1>7, <1>8, <1>9, <1>10 DEF QuietStep

(* A history holds what was stored in its conversation.                     *)
LEMMA HistoriesKept ==
  ASSUME Types, WrittenOnce, QuietStep
  PROVE  \A h \in history' : \A m \in h.msgs : posted[m] = h.conv
<1>1. ASSUME NEW c \in Convs, SelectConversation(c)
      PROVE  \A h \in history' : \A m \in h.msgs : posted[m] = h.conv
  BY <1>1 DEF SelectConversation, Asked, WrittenOnce
<1>2. ASSUME NEW h \in history, HistoryServed(h)
      PROVE  \A g \in history' : \A m \in g.msgs : posted[m] = g.conv
  BY <1>2 DEF HistoryServed, Stored, WrittenOnce
<1>3. ASSUME NEW h \in history, HistoryShown(h) \/ HistoryFails(h)
      PROVE  history' \subseteq history
  BY <1>3 DEF HistoryShown, HistoryFails
<1>4. ASSUME \/ UserChanges \/ TimerFires \/ UNCHANGED vars
             \/ \E s \in Slots : \/ TicketArrives(s) \/ TicketRefused(s) \/ Opens(s)
                                 \/ Closes(s) \/ ClosingLost(s)
             \/ \E s \in Slots, m \in Messages : MessageHeard(s, m) \/ ServerFails(s, m)
             \/ \E m \in Messages \cup {None} : SetReply(m)
      PROVE  history' = history
  BY <1>4 DEF UserChanges, TimerFires, vars, TicketArrives, TicketRefused, Opens, Closes,
              ClosingLost, MessageHeard, ServerFails, SetReply
<1> QED BY <1>1, <1>2, <1>3, <1>4 DEF QuietStep, WrittenOnce

(* A message of a slot is posted in a conversation.                         *)
LEMMA HeardArePosted ==
  ASSUME ChatAssumption, Types, WrittenOnce
  PROVE  /\ \A s \in Slots : \A m \in sock[s].inbox : posted[m] \in Convs
         /\ \A h \in history : \A m \in h.msgs : posted[m] \in Convs
BY SockKinds DEF Types, Board, MessageType, WrittenOnce

(* What sending and storing a message change.                               *)
LEMMA SendMessageFacts ==
  ASSUME ChatAssumption, Types, SendMessage
  PROVE  /\ draft \in Mine
         /\ \A s \in Slots :
              /\ sock'[s].phase = sock[s].phase /\ sock'[s].conv = sock[s].conv
              /\ sock'[s].inbox = sock[s].inbox
              /\ sock'[s].outbox = IF s = current /\ Open(current)
                                   THEN sock[s].outbox \cup {draft} ELSE sock[s].outbox
         /\ \A x \in Mine : sent'[x] = IF x = draft THEN conv ELSE sent[x]
         /\ \A x \in Mine : parent'[x] = IF x = draft THEN replyTo ELSE parent[x]
<1>1. /\ \A x \in Mine : sent'[x] = IF x = draft THEN conv ELSE sent[x]
      /\ \A x \in Mine : parent'[x] = IF x = draft THEN replyTo ELSE parent[x]
  BY DEF SendMessage, Types, InputType
<1>2. draft \in Mine
  BY DEF SendMessage, Types, InputType
<1>3. CASE Open(current)
  <2>1. current \in Slots
    BY <1>3 DEF Open, Types, WindowType
  <2>2. sock' = [sock EXCEPT ![current].outbox = @ \cup {draft}]
    BY <1>3 DEF SendMessage
  <2> QED BY <1>1, <1>2, <1>3, <2>1, <2>2 DEF Types, Board, Socks
<1>4. CASE ~Open(current)
  BY <1>1, <1>2, <1>4 DEF SendMessage
<1> QED BY <1>3, <1>4

LEMMA ServerStoresFacts ==
  ASSUME ChatAssumption, Types, NEW s \in Slots, NEW m \in Messages, ServerStores(s, m)
  PROVE  /\ sock[s].conv \in Convs /\ m \in sock[s].outbox /\ m \in Mine
         /\ \A x \in Messages : posted'[x] = IF x = m THEN sock[s].conv ELSE posted[x]
         /\ sock'[s].outbox = sock[s].outbox \ {m}
         /\ \A u \in Slots : u # s => sock'[u].outbox = sock[u].outbox
         /\ \A u \in Slots :
              \/ sock'[u].conv = sock[u].conv /\ sock'[u].phase = sock[u].phase
              \/ /\ sock'[u].outbox = {} /\ sock'[u].phase = "free"
                 /\ sock[u].phase = "closing"
         /\ \A u \in Slots : \A x \in sock'[u].inbox :
              /\ sock'[u].conv = sock[u].conv
              /\ x \in sock[u].inbox \/ (x = m /\ sock[u].conv = sock[s].conv)
<1> USE SockKinds DEF Types
<1> DEFINE b == Taken(s, m)
           c == sock[s].conv
<1>1. /\ m \in sock[s].outbox /\ sock' = Broadcast(b, c, m)
      /\ posted' = [posted EXCEPT ![m] = c]
  BY DEF ServerStores
<1>2. /\ m \in Mine /\ c \in Convs /\ Board(b)
      /\ \A u \in Slots : u # s => b[u] = sock[u]
      /\ b[s].outbox = sock[s].outbox \ {m}
      /\ \/ b[s].phase = sock[s].phase /\ b[s].conv = c /\ b[s].inbox = sock[s].inbox
         \/ b[s] = Free /\ sock[s].phase = "closing"
  BY <1>1, TakenFacts
<1> HIDE DEF b
<1>3. \A u \in Slots :
         /\ sock'[u].phase = b[u].phase /\ sock'[u].conv = b[u].conv
         /\ sock'[u].outbox = b[u].outbox
         /\ \A x \in sock'[u].inbox : x \in b[u].inbox \/ (x = m /\ b[u].conv = c)
  BY <1>1, <1>2, BroadcastFacts
<1>4. \A x \in Messages : posted'[x] = IF x = m THEN c ELSE posted[x]
  BY <1>1 DEF MessageType
<1>5. ASSUME NEW u \in Slots
      PROVE  /\ sock'[u].outbox = IF u = s THEN sock[u].outbox \ {m} ELSE sock[u].outbox
             /\ \/ sock'[u].conv = sock[u].conv /\ sock'[u].phase = sock[u].phase
                \/ /\ sock'[u].outbox = {} /\ sock'[u].phase = "free"
                   /\ sock[u].phase = "closing"
             /\ \A x \in sock'[u].inbox :
                   /\ sock'[u].conv = sock[u].conv
                   /\ x \in sock[u].inbox \/ (x = m /\ sock[u].conv = c)
  <2>1. CASE u # s
    BY <1>2, <1>3, <2>1
  <2>2. CASE u = s /\ b[s].phase = sock[s].phase /\ b[s].conv = c /\ b[s].inbox = sock[s].inbox
    BY <1>2, <1>3, <2>2
  <2>3. CASE u = s /\ b[s] = Free /\ sock[s].phase = "closing"
    <3>1. b[u].conv = None /\ b[u].inbox = {} /\ b[u].outbox = {} /\ b[u].phase = "free"
      BY <2>3
    <3>2. c # None
      BY <1>2 DEF ChatAssumption
    <3> QED BY <1>2, <1>3, <2>3, <3>1, <3>2
  <2> QED BY <1>2, <2>1, <2>2, <2>3
<1> QED BY <1>1, <1>2, <1>4, <1>5

LEMMA OthersPostFacts ==
  ASSUME ChatAssumption, Types, NEW m \in Theirs, NEW c \in Convs, OthersPost(m, c)
  PROVE  /\ m \in Messages /\ m \notin Mine /\ posted[m] = None
         /\ \A x \in Messages : posted'[x] = IF x = m THEN c ELSE posted[x]
         /\ \A u \in Slots :
              /\ sock'[u].conv = sock[u].conv /\ sock'[u].outbox = sock[u].outbox
              /\ sock'[u].phase = sock[u].phase
              /\ \A x \in sock'[u].inbox : x \in sock[u].inbox \/ (x = m /\ sock[u].conv = c)
<1>1. /\ m \in Messages /\ m \notin Mine /\ posted[m] = None
      /\ sock' = Broadcast(sock, c, m)
  BY DEF OthersPost, Messages, ChatAssumption
<1>2. \A x \in Messages : posted'[x] = IF x = m THEN c ELSE posted[x]
  BY DEF OthersPost, Types, MessageType
<1> QED BY <1>1, <1>2, BroadcastFacts DEF Types

(* A message newly stored was in no inbox and no history.                   *)
LEMMA WhereStored ==
  ASSUME ChatAssumption, Types, WrittenOnce, NEW m \in Messages, NEW c \in Convs,
         posted[m] = None, history' = history,
         \A x \in Messages : posted'[x] = IF x = m THEN c ELSE posted[x],
         \A u \in Slots : \A x \in sock'[u].inbox :
            /\ sock'[u].conv = sock[u].conv
            /\ x \in sock[u].inbox \/ (x = m /\ sock[u].conv = c)
  PROVE  /\ \A u \in Slots : \A x \in sock'[u].inbox : posted'[x] = sock'[u].conv
         /\ \A h \in history' : \A x \in h.msgs : posted'[x] = h.conv
<1>1. /\ \A u \in Slots : sock[u].inbox \subseteq Messages
      /\ \A h \in history : h.msgs \subseteq Messages
  BY DEF Types, Board, Socks, MessageType
<1>2. /\ \A u \in Slots : m \notin sock[u].inbox
      /\ \A h \in history : m \notin h.msgs
  BY HeardArePosted DEF ChatAssumption
<1>3. ASSUME NEW u \in Slots, NEW x \in sock'[u].inbox
      PROVE  posted'[x] = sock'[u].conv
  <2>1. CASE x = m /\ sock[u].conv = c
    BY <2>1
  <2>2. CASE x \in sock[u].inbox
    <3>1. x # m /\ x \in Messages /\ posted[x] = sock[u].conv
      BY <2>2, <1>1, <1>2 DEF WrittenOnce
    <3> QED BY <3>1
  <2> QED BY <2>1, <2>2
<1>4. \A h \in history' : \A x \in h.msgs : posted'[x] = h.conv
  BY <1>1, <1>2 DEF WrittenOnce
<1> QED BY <1>3, <1>4

LEMMA WrittenOnceStep ==
  ASSUME ChatAssumption, Types, WrittenOnce, [Next]_vars
  PROVE  WrittenOnce'
<1> USE ChatAssumption DEF Types
<1>1. CASE QuietStep
  <2>1. Quieter /\ UNCHANGED Texts
    BY <1>1, QuietStepQuieter, QuietTexts
  <2>2. \A h \in history' : \A m \in h.msgs : posted'[m] = h.conv
    BY <1>1, <2>1, HistoriesKept DEF Texts
  <2>3. \A s, u \in Slots : s # u => sock'[s].outbox \cap sock'[u].outbox = {}
    BY <2>1 DEF Quieter, WrittenOnce
  <2>4. \A s \in Slots : \A m \in sock'[s].inbox : posted'[m] = sock'[s].conv
    BY <2>1 DEF Quieter, WrittenOnce, Texts
  <2>5. \A s \in Slots : \A m \in sock'[s].outbox : sent'[m] # None /\ posted'[m] = None
    BY <2>1 DEF Quieter, WrittenOnce, Texts
  <2>6. /\ \A m \in Mine : posted'[m] # None => sent'[m] # None
        /\ \A m \in Mine : sent'[m] # None => begun'[m] # None
        /\ draft' # None => begun'[draft'] # None /\ sent'[draft'] = None
    BY <2>1 DEF WrittenOnce, Texts
  <2> QED BY <2>2, <2>3, <2>4, <2>5, <2>6 DEF WrittenOnce
<1>2. ASSUME NEW m \in Mine, BeginMessage(m)
      PROVE  WrittenOnce'
  <2>1. /\ begun[m] = None /\ draft' = m /\ conv # None
        /\ sock' = sock /\ history' = history /\ posted' = posted /\ sent' = sent
    BY <1>2 DEF BeginMessage, WindowType, ChatAssumption
  <2>2. \A x \in Mine : begun'[x] = IF x = m THEN conv ELSE begun[x]
    BY <1>2 DEF BeginMessage, InputType
  <2>3. sent[m] = None
    BY <2>1 DEF WrittenOnce
  <2> QED BY <2>1, <2>2, <2>3 DEF WrittenOnce
<1>3. CASE SendMessage
  <2>1. /\ draft # None /\ draft' = None /\ posted' = posted /\ history' = history
        /\ begun' = begun /\ conv # None
    BY <1>3 DEF SendMessage, WindowType, ChatAssumption
  <2>2. /\ draft \in Mine
        /\ \A s \in Slots : /\ sock'[s].inbox = sock[s].inbox /\ sock'[s].conv = sock[s].conv
                            /\ sock'[s].outbox = IF s = current /\ Open(current)
                                                 THEN sock[s].outbox \cup {draft}
                                                 ELSE sock[s].outbox
        /\ \A x \in Mine : sent'[x] = IF x = draft THEN conv ELSE sent[x]
    BY <1>3, SendMessageFacts
  <2>3. begun[draft] # None /\ sent[draft] = None
    BY <2>1 DEF WrittenOnce
  <2>4. posted[draft] = None /\ \A s \in Slots : draft \notin sock[s].outbox
    BY <2>2, <2>3 DEF WrittenOnce
  <2>5. \A x \in Mine : /\ posted'[x] # None => sent'[x] # None
                        /\ sent'[x] # None => begun'[x] # None
    BY <2>1, <2>2, <2>3 DEF WrittenOnce
  <2>6. ASSUME NEW s \in Slots, NEW x \in sock'[s].outbox
        PROVE  sent'[x] # None /\ posted'[x] = None
    <3>1. x = draft \/ x \in sock[s].outbox
      BY <2>2
    <3>2. x \in Mine
      BY <3>1, <2>2 DEF Board, Socks
    <3>3. x # draft => sent[x] # None /\ posted[x] = None
      BY <3>1 DEF WrittenOnce
    <3> QED BY <3>2, <3>3, <2>1, <2>2, <2>4
  <2>7. \A s, u \in Slots : s # u => sock'[s].outbox \cap sock'[u].outbox = {}
    <3>1. \A s, u \in Slots : s # u => sock[s].outbox \cap sock[u].outbox = {}
      BY DEF WrittenOnce
    <3> QED BY <3>1, <2>2, <2>4
  <2>8. /\ \A s \in Slots : \A x \in sock'[s].inbox : posted'[x] = sock'[s].conv
        /\ \A h \in history' : \A x \in h.msgs : posted'[x] = h.conv
    BY <2>1, <2>2 DEF WrittenOnce
  <2> QED BY <2>1, <2>5, <2>6, <2>7, <2>8 DEF WrittenOnce
<1>4. ASSUME NEW s \in Slots, NEW m \in Messages, ServerStores(s, m)
      PROVE  WrittenOnce'
  <2> DEFINE c == sock[s].conv
  <2>1. /\ c \in Convs /\ m \in sock[s].outbox /\ m \in Mine
        /\ \A x \in Messages : posted'[x] = IF x = m THEN c ELSE posted[x]
        /\ sock'[s].outbox = sock[s].outbox \ {m}
        /\ \A u \in Slots : u # s => sock'[u].outbox = sock[u].outbox
        /\ \A u \in Slots : \A x \in sock'[u].inbox :
             /\ sock'[u].conv = sock[u].conv
             /\ x \in sock[u].inbox \/ (x = m /\ sock[u].conv = c)
    <3>1. /\ c \in Convs /\ m \in sock[s].outbox /\ m \in Mine
          /\ \A x \in Messages : posted'[x] = IF x = m THEN c ELSE posted[x]
      BY <1>4, ServerStoresFacts
    <3>2. /\ sock'[s].outbox = sock[s].outbox \ {m}
          /\ \A u \in Slots : u # s => sock'[u].outbox = sock[u].outbox
      BY <1>4, ServerStoresFacts
    <3>3. \A u \in Slots : \A x \in sock'[u].inbox :
            /\ sock'[u].conv = sock[u].conv
            /\ x \in sock[u].inbox \/ (x = m /\ sock[u].conv = c)
      BY <1>4, ServerStoresFacts
    <3> QED BY <3>1, <3>2, <3>3
  <2>2. history' = history /\ draft' = draft /\ begun' = begun /\ sent' = sent
    BY <1>4 DEF ServerStores, input
  <2>3. posted[m] = None /\ sent[m] # None /\ \A u \in Slots : u # s => m \notin sock[u].outbox
    BY <2>1 DEF WrittenOnce
  <2>4. \A u \in Slots : sock[u].outbox \subseteq Messages
    BY DEF Board, Socks, Messages
  <2>5. \A x \in Mine : posted'[x] # None => sent'[x] # None
    BY <2>1, <2>2, <2>3 DEF WrittenOnce, Messages
  <2>6. ASSUME NEW u \in Slots, NEW x \in sock'[u].outbox
        PROVE  sent'[x] # None /\ posted'[x] = None
    <3>1. x \in sock[u].outbox /\ x # m
      BY <2>1, <2>3
    <3>2. sent[x] # None /\ posted[x] = None /\ x \in Messages
      BY <3>1, <2>4 DEF WrittenOnce
    <3> QED BY <3>1, <3>2, <2>1, <2>2
  <2>7. \A u, v \in Slots : u # v => sock'[u].outbox \cap sock'[v].outbox = {}
    BY <2>1 DEF WrittenOnce
  <2>8. /\ \A u \in Slots : \A x \in sock'[u].inbox : posted'[x] = sock'[u].conv
        /\ \A h \in history' : \A x \in h.msgs : posted'[x] = h.conv
    BY <2>1, <2>2, <2>3, WhereStored
  <2>9. /\ \A x \in Mine : sent'[x] # None => begun'[x] # None
        /\ draft' # None => begun'[draft'] # None /\ sent'[draft'] = None
    BY <2>2 DEF WrittenOnce
  <2> QED BY <2>5, <2>6, <2>7, <2>8, <2>9 DEF WrittenOnce
<1>5. ASSUME NEW m \in Theirs, NEW c \in Convs, OthersPost(m, c)
      PROVE  WrittenOnce'
  <2>1. /\ m \in Messages /\ m \notin Mine /\ posted[m] = None
        /\ \A x \in Messages : posted'[x] = IF x = m THEN c ELSE posted[x]
        /\ \A u \in Slots : sock'[u].outbox = sock[u].outbox
        /\ \A u \in Slots : \A x \in sock'[u].inbox :
             /\ sock'[u].conv = sock[u].conv
             /\ x \in sock[u].inbox \/ (x = m /\ sock[u].conv = c)
    BY <1>5, OthersPostFacts
  <2>2. history' = history /\ draft' = draft /\ begun' = begun /\ sent' = sent
    BY <1>5 DEF OthersPost, input
  <2>3. \A x \in Mine : posted'[x] = posted[x]
    BY <2>1 DEF Messages
  <2>4. \A u \in Slots : sock[u].outbox \subseteq Mine
    BY DEF Board, Socks
  <2>5. \A u \in Slots : \A x \in sock'[u].outbox : sent'[x] # None /\ posted'[x] = None
    BY <2>1, <2>2, <2>3, <2>4 DEF WrittenOnce
  <2>6. /\ \A u \in Slots : \A x \in sock'[u].inbox : posted'[x] = sock'[u].conv
        /\ \A h \in history' : \A x \in h.msgs : posted'[x] = h.conv
    BY <2>1, <2>2, WhereStored
  <2>7. /\ \A x \in Mine : posted'[x] # None => sent'[x] # None
        /\ \A x \in Mine : sent'[x] # None => begun'[x] # None
        /\ draft' # None => begun'[draft'] # None /\ sent'[draft'] = None
        /\ \A u, v \in Slots : u # v => sock'[u].outbox \cap sock'[v].outbox = {}
    BY <2>1, <2>2, <2>3 DEF WrittenOnce
  <2> QED BY <2>5, <2>6, <2>7 DEF WrittenOnce
<1> QED BY <1>1, <1>2, <1>3, <1>4, <1>5 DEF Next, SocketStep, QuietStep

-----------------------------------------------------------------------------
(* The ways to connect: what each step does to the slots in use.            *)

LEMMA CausesGrow ==
  ASSUME [Next]_vars
  PROVE  /\ "crossed" \in causes => "crossed" \in causes'
         /\ "carried" \in causes => "carried" \in causes'
BY DEF Next, SocketStep, vars, SelectConversation, UserChanges, TicketArrives, TicketRefused,
       Opens, Closes, ClosingLost, TimerFires, BeginMessage, SetReply, SendMessage,
       ServerStores, ServerFails, OthersPost, MessageHeard, HistoryServed, HistoryShown,
       HistoryFails

(* What starting over leaves of the attempts, if it crosses nothing.        *)
LEMMA CleanRestart ==
  ASSUME ChatAssumption, Types, NEW c \in Convs, Connect(CleanedUp, c), ~Unseen
  PROVE  /\ strays = 0
         /\ \E s \in Slots : Alive' = {s} /\ sock'[s].conv = c
<1> USE SockKinds DEF Types
<1>1. ~(strays > 0) /\ Alive \subseteq {current}
  BY DEF Unseen
<1>2. strays = 0
  BY <1>1 DEF WindowType
<1>3. PICK s \in Slots : /\ sock'[s] = Attempt(c)
                         /\ \A u \in Slots : u # s => sock'[u] = CleanedUp[u]
  BY Restarted
<1>4. \A u \in Slots : CleanedUp[u].phase \notin {"ticket", "opening", "open"}
  BY <1>1, CleanedFacts DEF Alive
<1>5. Alive' = {s}
  BY <1>3, <1>4 DEF Alive
<1> QED BY <1>2, <1>3, <1>5

(* The steps that leave the attempts, and the timers, as they are.          *)
LEMMA SameAlive ==
  ASSUME ChatAssumption, Types,
         \/ \E s \in Slots : TicketArrives(s) \/ Opens(s) \/ ClosingLost(s)
         \/ \E s \in Slots, m \in Messages :
              MessageHeard(s, m) \/ ServerStores(s, m) \/ ServerFails(s, m)
         \/ \E m \in Mine : BeginMessage(m)
         \/ \E m \in Messages \cup {None} : SetReply(m)
         \/ SendMessage
         \/ \E m \in Theirs, c \in Convs : OthersPost(m, c)
         \/ \E h \in history : HistoryServed(h) \/ HistoryShown(h) \/ HistoryFails(h)
         \/ UNCHANGED vars
  PROVE  /\ Alive' = Alive /\ \A s \in Alive : sock'[s].conv = sock[s].conv
         /\ timer' = timer /\ strays' = strays /\ conv' = conv
<1> USE SockKinds DEF Types
<1> DEFINE Same == Alive' = Alive /\ \A s \in Alive : sock'[s].conv = sock[s].conv
<1>1. ASSUME NEW s \in Slots, TicketArrives(s) \/ Opens(s)
      PROVE  Same
  BY <1>1 DEF TicketArrives, Opens, Alive, Board, Socks
<1>2. ASSUME NEW s \in Slots, ClosingLost(s)
      PROVE  Same
  BY <1>2 DEF ClosingLost, Alive, Board
<1>3. ASSUME NEW s \in Slots, NEW m \in Messages, MessageHeard(s, m)
      PROVE  Same
  BY <1>3 DEF MessageHeard, Alive, Board, Socks
<1>4. ASSUME NEW s \in Slots, NEW m \in Messages, ServerStores(s, m)
      PROVE  Same
  <2>1. \A u \in Slots : \/ sock'[u].conv = sock[u].conv /\ sock'[u].phase = sock[u].phase
                         \/ sock'[u].phase = "free" /\ sock[u].phase = "closing"
    BY <1>4, ServerStoresFacts
  <2> QED BY <2>1 DEF Alive
<1>5. ASSUME NEW s \in Slots, NEW m \in Messages, ServerFails(s, m)
      PROVE  Same
  <2>1. sock' = Taken(s, m) /\ m \in sock[s].outbox
    BY <1>5 DEF ServerFails
  <2>2. \A u \in Slots : \/ sock'[u].conv = sock[u].conv /\ sock'[u].phase = sock[u].phase
                         \/ sock'[u].phase = "free" /\ sock[u].phase = "closing"
    BY <2>1, TakenFacts
  <2> QED BY <2>2 DEF Alive
<1>6. ASSUME SendMessage
      PROVE  Same
  <2>1. \A u \in Slots : sock'[u].conv = sock[u].conv /\ sock'[u].phase = sock[u].phase
    BY <1>6, SendMessageFacts
  <2> QED BY <2>1 DEF Alive
<1>7. ASSUME NEW m \in Theirs, NEW c \in Convs, OthersPost(m, c)
      PROVE  Same
  BY <1>7, OthersPostFacts DEF Alive
<1>8. ASSUME sock' = sock
      PROVE  Same
  BY <1>8 DEF Alive
<1>9. ASSUME \/ \E m \in Mine : BeginMessage(m)
             \/ \E m \in Messages \cup {None} : SetReply(m)
             \/ \E h \in history : HistoryServed(h) \/ HistoryShown(h) \/ HistoryFails(h)
             \/ UNCHANGED vars
      PROVE  sock' = sock
  BY <1>9 DEF BeginMessage, SetReply, HistoryServed, HistoryShown, HistoryFails, vars
<1>10. Same
  BY <1>1, <1>2, <1>3, <1>4, <1>5, <1>6, <1>7, <1>8, <1>9
<1>11. timer' = timer /\ strays' = strays /\ conv' = conv
  BY DEF TicketArrives, Opens, ClosingLost, MessageHeard, ServerStores, ServerFails,
         BeginMessage, SetReply, SendMessage, OthersPost, HistoryServed, HistoryShown,
         HistoryFails, vars, window
<1> QED BY <1>10, <1>11

LEMMA OneWayStep ==
  ASSUME ChatAssumption, Types, OneWay, [Next]_vars
  PROVE  OneWay'
<1> USE SockKinds DEF Types
<1>1. SUFFICES ASSUME "crossed" \notin causes'
               PROVE  /\ strays' = 0
                      /\ timer' => Alive' = {}
                      /\ ~timer' => \E s \in Slots : Alive' = {s}
  BY DEF OneWay
<1>2. "crossed" \notin causes
  BY <1>1, CausesGrow
<1>3. /\ strays = 0
      /\ timer => Alive = {}
      /\ ~timer => \E s \in Slots : Alive = {s}
  BY <1>2 DEF OneWay
<1>4. ASSUME UserChanges \/ \E c \in Convs : SelectConversation(c)
      PROVE  strays' = 0 /\ ~timer' /\ \E s \in Slots : Alive' = {s}
  <2>1. ~Unseen
    BY <1>1, <1>4 DEF SelectConversation, UserChanges, SwitchCauses
  <2>2. \E c \in Convs : Connect(CleanedUp, c)
    BY <1>4 DEF SelectConversation, UserChanges, WindowType
  <2>3. strays = 0 /\ \E s \in Slots : Alive' = {s}
    BY <2>1, <2>2, CleanRestart
  <2> QED BY <1>4, <2>3 DEF SelectConversation, UserChanges
<1>5. ASSUME NEW s \in Slots, TicketRefused(s) \/ Closes(s)
      PROVE  strays' = 0 /\ timer' /\ Alive' = {}
  <2>1. s \in Alive /\ sock' = [sock EXCEPT ![s] = Free]
    BY <1>5 DEF TicketRefused, Closes, Alive
  <2>2. ~timer /\ Alive = {s}
    BY <1>3, <2>1
  <2>3. Alive' = {}
    BY <2>1, <2>2 DEF Alive, Board
  <2>4. timer' /\ strays' = strays
    BY <1>5, <2>2 DEF TicketRefused, Closes, SetTimer
  <2> QED BY <1>3, <2>3, <2>4
<1>6. CASE TimerFires
  <2>1. timer /\ ~timer' /\ strays' = strays
    BY <1>3, <1>6 DEF TimerFires
  <2>2. PICK s \in Slots : /\ sock'[s] = Attempt(conv)
                           /\ \A u \in Slots : u # s => sock'[u] = sock[u]
    BY <1>6, Fired
  <2>3. Alive' = {s}
    BY <1>3, <2>1, <2>2 DEF Alive, WindowType
  <2> QED BY <1>3, <2>1, <2>3
<1>7. ASSUME Alive' = Alive, timer' = timer, strays' = strays
      PROVE  /\ strays' = 0
             /\ timer' => Alive' = {}
             /\ ~timer' => \E s \in Slots : Alive' = {s}
  BY <1>3, <1>7
<1> QED BY <1>4, <1>5, <1>6, <1>7, SameAlive DEF Next, SocketStep

-----------------------------------------------------------------------------
(* Whatever is under way belongs to the conversation of the window.         *)

LEMMA AllOfThisOneStep ==
  ASSUME ChatAssumption, Types, WrittenOnce, AllOfThisOne, [Next]_vars
  PROVE  AllOfThisOne'
<1> USE SockKinds DEF Types
<1> DEFINE Alike == \A s \in Alive' : sock'[s].conv = conv'
           Asked1 == \A h \in history' : h.conv = conv'
           OnWay == \A s \in Slots : \A m \in sock'[s].outbox : sent'[m] = sock'[s].conv
<1>1. SUFFICES ASSUME "crossed" \notin causes'
               PROVE  Alike /\ Asked1 /\ OnWay
  BY DEF AllOfThisOne
<1>2. /\ \A s \in Alive : sock[s].conv = conv
      /\ \A h \in history : h.conv = conv
      /\ \A s \in Slots : \A m \in sock[s].outbox : sent[m] = sock[s].conv
  BY <1>1, CausesGrow DEF AllOfThisOne
<1>3. CASE QuietStep
  <2>1. OnWay
    BY <1>2, <1>3, QuietStepQuieter, QuietTexts DEF Quieter, Texts
  <2>2. ASSUME NEW c \in Convs, SelectConversation(c)
        PROVE  Alike /\ Asked1
    <3>1. ~Unseen /\ history = {}
      BY <1>1, <2>2 DEF SelectConversation, SwitchCauses
    <3>2. \E s \in Slots : Alive' = {s} /\ sock'[s].conv = c
      BY <2>2, <3>1, CleanRestart DEF SelectConversation
    <3> QED BY <2>2, <3>1, <3>2 DEF SelectConversation, Asked
  <2>3. ASSUME UserChanges
        PROVE  Alike /\ Asked1
    <3>1. ~Unseen
      BY <1>1, <2>3 DEF UserChanges
    <3>2. \E s \in Slots : Alive' = {s} /\ sock'[s].conv = conv
      BY <2>3, <3>1, CleanRestart DEF UserChanges, WindowType
    <3> QED BY <1>2, <2>3, <3>2 DEF UserChanges
  <2>4. ASSUME NEW s \in Slots, TicketRefused(s) \/ Closes(s)
        PROVE  Alike /\ Asked1
    <3>1. sock' = [sock EXCEPT ![s] = Free] /\ conv' = conv /\ history' = history
      BY <2>4 DEF TicketRefused, Closes
    <3> QED BY <1>2, <3>1 DEF Alive, Board
  <2>5. ASSUME TimerFires
        PROVE  Alike /\ Asked1
    <3>1. PICK s \in Slots : /\ sock'[s] = Attempt(conv)
                             /\ \A u \in Slots : u # s => sock'[u] = sock[u]
      BY <2>5, Fired
    <3>2. conv' = conv /\ history' = history /\ conv \in Convs
      BY <2>5 DEF TimerFires, WindowType
    <3> QED BY <1>2, <3>1, <3>2 DEF Alive
  <2>6. ASSUME \/ \E s \in Slots : TicketArrives(s) \/ Opens(s) \/ ClosingLost(s)
               \/ \E s \in Slots, m \in Messages : MessageHeard(s, m) \/ ServerFails(s, m)
               \/ \E m \in Messages \cup {None} : SetReply(m)
               \/ \E h \in history : HistoryServed(h) \/ HistoryShown(h) \/ HistoryFails(h)
               \/ UNCHANGED vars
        PROVE  Alike /\ Asked1
    <3>1. Alive' = Alive /\ (\A s \in Alive : sock'[s].conv = sock[s].conv) /\ conv' = conv
      BY <2>6, SameAlive
    <3>2. Asked1
      BY <1>2, <2>6, <3>1 DEF TicketArrives, Opens, ClosingLost, MessageHeard, ServerFails,
            SetReply, HistoryServed, HistoryShown, HistoryFails, vars
    <3> QED BY <1>2, <3>1, <3>2
  <2> QED BY <1>3, <2>1, <2>2, <2>3, <2>4, <2>5, <2>6 DEF QuietStep
<1>4. ASSUME \/ SendMessage
             \/ \E m \in Mine : BeginMessage(m)
             \/ \E s \in Slots, m \in Messages : ServerStores(s, m)
             \/ \E m \in Theirs, c \in Convs : OthersPost(m, c)
      PROVE  Alike /\ Asked1
  <2>1. Alive' = Alive /\ (\A s \in Alive : sock'[s].conv = sock[s].conv) /\ conv' = conv
    BY <1>4, SameAlive
  <2>2. history' = history
    BY <1>4 DEF SendMessage, BeginMessage, ServerStores, OthersPost
  <2> QED BY <1>2, <2>1, <2>2
<1>5. ASSUME NEW m \in Mine, BeginMessage(m)
      PROVE  OnWay
  BY <1>2, <1>5 DEF BeginMessage
<1>6. ASSUME SendMessage
      PROVE  OnWay
  <2>1. ASSUME NEW s \in Slots, NEW x \in sock'[s].outbox
        PROVE  sent'[x] = sock'[s].conv
    <3>1. /\ sock'[s].conv = sock[s].conv /\ draft \in Mine
          /\ sock'[s].outbox = IF s = current /\ Open(current)
                               THEN sock[s].outbox \cup {draft} ELSE sock[s].outbox
          /\ \A y \in Mine : sent'[y] = IF y = draft THEN conv ELSE sent[y]
      BY <1>6, SendMessageFacts
    <3>2. draft # None
      BY <1>6 DEF SendMessage
    <3>3. \A u \in Slots : draft \notin sock[u].outbox
      BY <3>1, <3>2 DEF WrittenOnce
    <3>4. CASE x = draft
      <4>1. s = current /\ Open(current)
        BY <3>1, <3>3, <3>4
      <4>2. sock[s].conv = conv
        BY <1>2, <4>1 DEF Open, Alive
      <4> QED BY <3>1, <3>4, <4>2
    <3>5. CASE x # draft
      <4>1. x \in sock[s].outbox /\ x \in Mine
        BY <3>1, <3>5 DEF Board, Socks
      <4> QED BY <1>2, <3>1, <3>5, <4>1
    <3> QED BY <3>4, <3>5
  <2> QED BY <2>1
<1>7. ASSUME NEW s \in Slots, NEW m \in Messages, ServerStores(s, m)
      PROVE  OnWay
  <2>1. \A u \in Slots : \A x \in sock'[u].outbox :
           x \in sock[u].outbox /\ sock'[u].conv = sock[u].conv
    <3>1. \A u \in Slots : sock'[u].conv = sock[u].conv \/ sock'[u].outbox = {}
      BY <1>7, ServerStoresFacts
    <3>2. /\ sock'[s].outbox = sock[s].outbox \ {m}
          /\ \A u \in Slots : u # s => sock'[u].outbox = sock[u].outbox
      BY <1>7, ServerStoresFacts
    <3> QED BY <3>1, <3>2
  <2>2. sent' = sent
    BY <1>7 DEF ServerStores, input
  <2> QED BY <1>2, <2>1, <2>2
<1>8. ASSUME NEW m \in Theirs, NEW c \in Convs, OthersPost(m, c)
      PROVE  OnWay
  <2>1. \A u \in Slots : sock'[u].outbox = sock[u].outbox /\ sock'[u].conv = sock[u].conv
    BY <1>8, OthersPostFacts
  <2>2. sent' = sent
    BY <1>8 DEF OthersPost, input
  <2> QED BY <1>2, <2>1, <2>2
<1> QED
  BY <1>3, <1>4, <1>5, <1>6, <1>7, <1>8 DEF Next, SocketStep, QuietStep

(* What is stored stays stored where it is.                                 *)
LEMMA PostedStays ==
  ASSUME ChatAssumption, Types, WrittenOnce, [Next]_vars
  PROVE  \A x \in Messages : posted[x] # None => posted'[x] = posted[x]
<1>1. CASE QuietStep
  BY <1>1, QuietTexts DEF Texts
<1>2. ASSUME SendMessage \/ \E m \in Mine : BeginMessage(m)
      PROVE  posted' = posted
  BY <1>2 DEF SendMessage, BeginMessage
<1>3. ASSUME NEW s \in Slots, NEW m \in Messages, ServerStores(s, m)
      PROVE  \A x \in Messages : posted[x] # None => posted'[x] = posted[x]
  BY <1>3, ServerStoresFacts DEF WrittenOnce
<1>4. ASSUME NEW m \in Theirs, NEW c \in Convs, OthersPost(m, c)
      PROVE  \A x \in Messages : posted[x] # None => posted'[x] = posted[x]
  BY <1>4, OthersPostFacts
<1> QED BY <1>1, <1>2, <1>3, <1>4 DEF Next, SocketStep, QuietStep

LEMMA InputOfThisOneStep ==
  ASSUME ChatAssumption, Types, WrittenOnce, InputOfThisOne, WindowShowsItsConversation,
         [Next]_vars
  PROVE  InputOfThisOne'
<1> USE ChatAssumption DEF Types
<1> DEFINE AsSent(m) == begun[m] = sent[m] /\ (parent[m] # None => posted[parent[m]] = sent[m])
<1>1. SUFFICES ASSUME "crossed" \notin causes', "carried" \notin causes'
               PROVE  /\ draft' # None => begun'[draft'] = conv'
                      /\ replyTo' # None => posted'[replyTo'] = conv'
                      /\ \A m \in Mine : sent'[m] # None => AsSent(m)'
  BY DEF InputOfThisOne
<1>2. /\ draft # None => begun[draft] = conv
      /\ replyTo # None => posted[replyTo] = conv
      /\ \A m \in Mine : sent[m] # None => AsSent(m)
      /\ \A m \in shown : posted[m] = conv
  BY <1>1, CausesGrow DEF InputOfThisOne, WindowShowsItsConversation
<1>3. \A x \in Messages : posted[x] # None => posted'[x] = posted[x]
  BY PostedStays
<1>4. conv # None /\ shown \subseteq Messages
  BY DEF WindowType, MessageType
<1>5. ASSUME begun' = begun, sent' = sent, parent' = parent
      PROVE  \A m \in Mine : sent'[m] # None => AsSent(m)'
  BY <1>2, <1>3, <1>5 DEF InputType
<1>6. CASE UNCHANGED input
  <2>1. CASE conv' = conv
    BY <1>2, <1>3, <1>4, <1>5, <1>6, <2>1 DEF input, InputType
  <2>2. ASSUME NEW c \in Convs, SelectConversation(c)
        PROVE  draft' = None /\ replyTo' = None
    BY <1>1, <1>6, <2>2 DEF SelectConversation, SwitchCauses, input
  <2>3. conv' = conv \/ \E c \in Convs : SelectConversation(c)
    BY DEF Next, SocketStep, vars, UserChanges, TicketArrives, TicketRefused, Opens, Closes,
           ClosingLost, TimerFires, BeginMessage, SetReply, SendMessage, ServerStores,
           ServerFails, OthersPost, MessageHeard, HistoryServed, HistoryShown, HistoryFails
  <2> QED BY <1>5, <1>6, <2>1, <2>2, <2>3 DEF input
<1>7. ASSUME NEW m \in Mine, BeginMessage(m)
      PROVE  /\ draft' # None => begun'[draft'] = conv'
             /\ replyTo' # None => posted'[replyTo'] = conv'
             /\ \A x \in Mine : sent'[x] # None => AsSent(x)'
  <2>1. /\ begun[m] = None /\ draft' = m /\ replyTo' = replyTo /\ conv' = conv
        /\ posted' = posted /\ sent' = sent /\ parent' = parent
    BY <1>7 DEF BeginMessage
  <2>2. \A x \in Mine : begun'[x] = IF x = m THEN conv ELSE begun[x]
    BY <1>7 DEF BeginMessage, InputType
  <2>3. sent[m] = None
    BY <2>1 DEF WrittenOnce
  <2>4. ASSUME NEW x \in Mine, sent'[x] # None
        PROVE  AsSent(x)'
    <3>1. x # m /\ sent[x] # None
      BY <2>1, <2>3, <2>4
    <3> QED BY <1>2, <2>1, <2>2, <3>1
  <2> QED BY <1>2, <2>1, <2>2, <2>4
<1>8. ASSUME NEW m \in Messages \cup {None}, SetReply(m)
      PROVE  /\ draft' # None => begun'[draft'] = conv'
             /\ replyTo' # None => posted'[replyTo'] = conv'
             /\ \A x \in Mine : sent'[x] # None => AsSent(x)'
  <2>1. /\ m \in shown \cup {None} /\ replyTo' = m /\ conv' = conv /\ posted' = posted
        /\ draft' = draft /\ begun' = begun /\ sent' = sent /\ parent' = parent
    BY <1>8 DEF SetReply
  <2> QED BY <1>2, <1>5, <2>1
<1>9. CASE SendMessage
  <2>1. /\ draft # None /\ draft' = None /\ replyTo' = None /\ begun' = begun
        /\ posted' = posted
    BY <1>9 DEF SendMessage
  <2>2. /\ draft \in Mine
        /\ \A x \in Mine : sent'[x] = IF x = draft THEN conv ELSE sent[x]
        /\ \A x \in Mine : parent'[x] = IF x = draft THEN replyTo ELSE parent[x]
    BY <1>9, SendMessageFacts
  <2>3. ASSUME NEW x \in Mine, sent'[x] # None
        PROVE  AsSent(x)'
    <3>1. CASE x = draft
      BY <1>2, <2>1, <2>2, <3>1
    <3>2. CASE x # draft
      <4>1. AsSent(x) /\ sent'[x] = sent[x] /\ parent'[x] = parent[x]
        BY <1>2, <2>2, <2>3, <3>2
      <4> QED BY <2>1, <4>1
    <3> QED BY <3>1, <3>2
  <2> QED BY <2>1, <2>3
<1> QED BY <1>6, <1>7, <1>8, <1>9, InputKept

-----------------------------------------------------------------------------
(* What is posted and what is shown.                                        *)

LEMMA StayStep ==
  ASSUME ChatAssumption, Types, WrittenOnce, AllOfThisOne', InputOfThisOne', AllOfThisOne,
         MessagesStayInTheirConversation, [Next]_vars
  PROVE  MessagesStayInTheirConversation'
<1> USE DEF Types
<1>1. SUFFICES ASSUME "crossed" \notin causes'
               PROVE  \A x \in Mine : posted'[x] # None =>
                        /\ posted'[x] = sent'[x]
                        /\ "carried" \notin causes' =>
                             /\ posted'[x] = begun'[x]
                             /\ parent'[x] # None => posted'[parent'[x]] = posted'[x]
  BY DEF MessagesStayInTheirConversation
<1>2. /\ \A x \in Mine : posted[x] # None => posted[x] = sent[x]
      /\ \A s \in Slots : \A x \in sock[s].outbox : sent[x] = sock[s].conv
  BY <1>1, CausesGrow DEF AllOfThisOne, MessagesStayInTheirConversation
<1>3. \A x \in Mine : posted'[x] # None => posted'[x] = sent'[x]
  <2>1. CASE QuietStep
    BY <1>2, <2>1, QuietTexts DEF Texts
  <2>2. ASSUME NEW m \in Mine, BeginMessage(m)
        PROVE  posted' = posted /\ sent' = sent
    BY <2>2 DEF BeginMessage
  <2>3. CASE SendMessage
    <3>1. posted' = posted /\ draft # None
      BY <2>3 DEF SendMessage
    <3>2. posted[draft] = None
      BY <3>1 DEF WrittenOnce, InputType
    <3> QED BY <1>2, <2>3, <3>1, <3>2, SendMessageFacts
  <2>4. ASSUME NEW s \in Slots, NEW m \in Messages, ServerStores(s, m)
        PROVE  \A x \in Mine : posted'[x] # None => posted'[x] = sent'[x]
    <3>1. /\ m \in sock[s].outbox
          /\ \A x \in Messages : posted'[x] = IF x = m THEN sock[s].conv ELSE posted[x]
      BY <2>4, ServerStoresFacts
    <3>2. sent' = sent
      BY <2>4 DEF ServerStores, input
    <3> QED BY <1>2, <3>1, <3>2 DEF Messages
  <2>5. ASSUME NEW m \in Theirs, NEW c \in Convs, OthersPost(m, c)
        PROVE  \A x \in Mine : posted'[x] # None => posted'[x] = sent'[x]
    <3>1. m \notin Mine /\ \A x \in Messages : posted'[x] = IF x = m THEN c ELSE posted[x]
      BY <2>5, OthersPostFacts
    <3>2. sent' = sent
      BY <2>5 DEF OthersPost, input
    <3> QED BY <1>2, <3>1, <3>2 DEF Messages
  <2> QED BY <1>2, <2>1, <2>2, <2>3, <2>4, <2>5 DEF Next, SocketStep, QuietStep
<1>4. ASSUME "carried" \notin causes'
      PROVE  \A m \in Mine : sent'[m] # None =>
               begun'[m] = sent'[m] /\ (parent'[m] # None => posted'[parent'[m]] = sent'[m])
  BY <1>1, <1>4 DEF InputOfThisOne
<1> QED BY <1>3, <1>4

LEMMA ShowsStep ==
  ASSUME ChatAssumption, Types, WrittenOnce, AllOfThisOne,
         WindowShowsItsConversation, [Next]_vars
  PROVE  WindowShowsItsConversation'
<1> USE DEF Types
<1>1. SUFFICES ASSUME "crossed" \notin causes'
               PROVE  \A x \in shown' : posted'[x] = conv'
  BY DEF WindowShowsItsConversation
<1>2. /\ \A x \in shown : posted[x] = conv
      /\ \A s \in Alive : sock[s].conv = conv
      /\ \A h \in history : h.conv = conv
  BY <1>1, CausesGrow DEF AllOfThisOne, WindowShowsItsConversation
<1>3. conv # None /\ shown \subseteq Messages
  BY DEF WindowType, MessageType, ChatAssumption
<1>4. \A x \in Messages : posted[x] = conv => posted'[x] = conv
  BY <1>3, PostedStays
<1>5. ASSUME NEW c \in Convs, SelectConversation(c)
      PROVE  shown' = {}
  BY <1>5 DEF SelectConversation
<1>6. ASSUME NEW s \in Slots, NEW m \in Messages, MessageHeard(s, m)
      PROVE  \A x \in shown' : posted'[x] = conv'
  <2>1. /\ shown' = shown \cup {m} /\ posted' = posted /\ conv' = conv
        /\ m \in sock[s].inbox /\ s \in Alive
    BY <1>6 DEF MessageHeard, Open, Alive
  <2>2. posted[m] = conv
    BY <1>2, <2>1 DEF WrittenOnce
  <2> QED BY <1>2, <2>1, <2>2
<1>7. ASSUME NEW h \in history, HistoryShown(h)
      PROVE  \A x \in shown' : posted'[x] = conv'
  <2>1. shown' = h.msgs /\ posted' = posted /\ conv' = conv
    BY <1>7 DEF HistoryShown
  <2> QED BY <1>2, <2>1 DEF WrittenOnce
<1>8. ASSUME \/ UserChanges \/ TimerFires \/ SendMessage
             \/ \E s \in Slots : \/ TicketArrives(s) \/ TicketRefused(s) \/ Opens(s)
                                 \/ Closes(s) \/ ClosingLost(s)
             \/ \E s \in Slots, m \in Messages : ServerStores(s, m) \/ ServerFails(s, m)
             \/ \E m \in Mine : BeginMessage(m)
             \/ \E m \in Messages \cup {None} : SetReply(m)
             \/ \E m \in Theirs, c \in Convs : OthersPost(m, c)
             \/ \E h \in history : HistoryServed(h) \/ HistoryFails(h)
             \/ UNCHANGED vars
      PROVE  shown' = shown /\ conv' = conv
  BY <1>8 DEF UserChanges, TimerFires, SendMessage, TicketArrives, TicketRefused, Opens,
              Closes, ClosingLost, ServerStores, ServerFails, BeginMessage, SetReply,
              OthersPost, HistoryServed, HistoryFails, vars
<1> QED BY <1>2, <1>3, <1>4, <1>5, <1>6, <1>7, <1>8 DEF Next, SocketStep

-----------------------------------------------------------------------------
(* The invariant and what follows from it.                                  *)

LEMMA InitInv ==
  ASSUME ChatAssumption, Init
  PROVE  IInv
<1> USE SockKinds
<1> DEFINE a == AnyOf(Slots)
<1>1. a \in Slots /\ First \in Convs
  BY DEF AnyOf, ChatAssumption
<1>2. \A s \in Slots : sock[s] = IF s = a THEN Attempt(First) ELSE Free
  BY DEF Init, Attempt
<1>3. sock \in [Slots -> Socks]
  BY <1>1 DEF Init, Attempt
<1> HIDE DEF a
<1>4. Board(sock)
  BY <1>1, <1>2, <1>3 DEF Board
<1>5. WindowType /\ MessageType /\ InputType
  <2>1. WindowType
    BY <1>1 DEF Init, WindowType
  <2>2. Asked(First) \in [conv : Convs, served : BOOLEAN, msgs : SUBSET Messages]
    BY <1>1 DEF Asked
  <2>3. MessageType
    BY <2>2 DEF Init, MessageType
  <2>4. InputType
    BY DEF Init, InputType
  <2> QED BY <2>1, <2>3, <2>4
<1>6. \A s \in Slots : sock[s].inbox = {} /\ sock[s].outbox = {}
  BY <1>1, <1>2
<1>7. WrittenOnce
  BY <1>6 DEF Init, Asked, WrittenOnce, Messages
<1>8. Alive = {a} /\ sock[a].conv = First
  BY <1>1, <1>2 DEF Alive
<1>9. AllOfThisOne
  BY <1>6, <1>8 DEF Init, Asked, AllOfThisOne
<1>10. OneWay
  BY <1>1, <1>8 DEF Init, OneWay
<1>11. InputOfThisOne /\ MessagesStayInTheirConversation /\ WindowShowsItsConversation
  BY DEF Init, Messages, InputOfThisOne, MessagesStayInTheirConversation,
         WindowShowsItsConversation
<1> QED BY <1>4, <1>5, <1>7, <1>9, <1>10, <1>11 DEF IInv, Types

(* The strengthening is an invariant of the chat window, whatever the       *)
(* number of conversations, sockets and messages.                           *)
THEOREM Invariance == Spec => []IInv
<1>1. Init => IInv
  BY ChatAssumption, InitInv
<1>2. IInv /\ [Next]_vars => IInv'
  BY ChatAssumption, TypeStep, WrittenOnceStep, AllOfThisOneStep, InputOfThisOneStep,
     OneWayStep, StayStep, ShowsStep DEF IInv
<1> QED BY <1>1, <1>2, PTL DEF Spec

(* Every variable of the chat window keeps its type (useChat, ChatWindow).  *)
THEOREM TypeCorrect == Spec => []TypeOK
<1>1. IInv => TypeOK
  BY ChatAssumption, TypesGiveTypeOK DEF IInv
<1> QED BY <1>1, Invariance, PTL

(* Where no switch crosses what is under way, a message is posted in the    *)
(* conversation the window showed when it was sent; where none carries the  *)
(* input or the banner along either, that is where it was begun, and the    *)
(* message it replies to is there too (handleSend, sendMessage, the         *)
(* clean-up, handle_chat_message).                                          *)
THEOREM MessagesStay == Spec => []MessagesStayInTheirConversation
<1>1. IInv => MessagesStayInTheirConversation
  BY DEF IInv
<1> QED BY <1>1, Invariance, PTL

(* Where no switch crosses what is under way, the window shows messages of  *)
(* its conversation only (onmessage, fetchHistory).                         *)
THEOREM WindowShows == Spec => []WindowShowsItsConversation
<1>1. IInv => WindowShowsItsConversation
  BY DEF IInv
<1> QED BY <1>1, Invariance, PTL

LEMMA OneWayCounts ==
  ASSUME ChatAssumption, Types, OneWay
  PROVE  OneWayToConnect
<1>1. SUFFICES ASSUME "crossed" \notin causes
               PROVE  Ways = 1
  BY DEF OneWayToConnect
<1>2. /\ strays = 0
      /\ timer => Alive = {}
      /\ ~timer => \E s \in Slots : Alive = {s}
  BY <1>1 DEF OneWay
<1>3. CASE timer
  <2>1. Cardinality(Alive) = 0
    BY <1>2, <1>3, FS_EmptySet
  <2> QED BY <1>2, <1>3, <2>1 DEF Ways
<1>4. CASE ~timer
  <2>1. Cardinality(Alive) = 1
    BY <1>2, <1>4, FS_Singleton
  <2> QED BY <1>2, <1>4, <2>1 DEF Ways
<1> QED BY <1>3, <1>4

(* Where no switch crosses what is under way, there is exactly one socket,  *)
(* attempt or timer at any time (connect, onclose, the reconnection).       *)
THEOREM OneWayHolds == Spec => []OneWayToConnect
<1>1. IInv => OneWayToConnect
  BY ChatAssumption, OneWayCounts DEF IInv
<1> QED BY <1>1, Invariance, PTL
=============================================================================
