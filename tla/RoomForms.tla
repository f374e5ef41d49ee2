----------------------------- MODULE RoomForms ------------------------------
(***************************************************************************)
(* The two forms of the room page, bids and chat, from the button to the   *)
(* answer: useBidIntent and useAuctionChat, the snapshot that enables them *)
(* and suggests the next bid, the socket handlers and the services behind  *)
(* them.                                                                   *)
(*                                                                         *)
(* The pages of one auction stay open; AuctionRoom has their opening and   *)
(* closing.  A connection is a socket <<tab, n>>; packets of one socket    *)
(* keep their order in each direction.  The jobs of the auction's queue    *)
(* follow each other in any order (AuctionQueue has the right one), and    *)
(* what a job writes and what is sent of it are one step: AuctionEngine    *)
(* and AuctionRoom have what may happen in between.                        *)
(*                                                                         *)
(* A press is numbered within its tab, which stands for the request id of  *)
(* a bid and the text of a message.                                        *)
(***************************************************************************)
EXTENDS Integers, Sequences, FiniteSets

CONSTANTS
  Tab, User,
  Seller,          \* the user who sells
  NoUser,          \* a guest; also the caller of a timer
  Visitors,        \* who may sit at the tabs
  StartingBid, MinimumIncrement,
  Typed,           \* amounts that may be typed instead of the suggested one
  ChatLimit,       \* messages a page keeps
  MaxConnections,  \* bound: connections of all tabs
  MaxPresses,      \* bound: presses of all tabs
  MaxFaults        \* bound: failed database calls

ASSUME FormsAssumption ==
  /\ Visitors \subseteq [Tab -> User \union {NoUser}]
  /\ Seller \in User /\ NoUser \notin User
  /\ StartingBid \in Nat /\ MinimumIncrement \in Nat \ {0}
  /\ Typed \subseteq Nat /\ ChatLimit \in Nat \ {0}
  /\ MaxConnections \in Nat /\ MaxPresses \in Nat /\ MaxFaults \in Nat

VARIABLES
  who,         \* the user of each tab
  status,      \* of the auction
  over,        \* endAt has passed
  version,
  bids,        \* the bids applied to the auction document, in their order
  room,        \* Socket.IO: the sockets in the room
  joins,       \* sockets whose join handler is under way
  waiting,     \* bids the server has, not yet decided
  chatting,    \* chat handlers under way
  told,        \* history: the messages broadcast so far
  connection,  \* the connections a tab has made
  live,        \* its client believes in the last one
  buffer,      \* packets kept until there is one
  up, down,    \* packets on their way to the server, to the client
  shown,       \* the snapshot on the page
  pending,     \* the bid without an answer, 0 when there is none
  sending,     \* the same for the chat
  messages,    \* the chat on the page
  confirmed,   \* history: own messages reported as sent
  presses, faults

auction == <<status, over, version, bids>>
handlers == <<joins, waiting, chatting>>
network == <<connection, live, buffer, up, down>>
page == <<shown, pending, sending, messages, confirmed>>
vars == <<who, auction, room, handlers, told, network, page, presses, faults>>

-----------------------------------------------------------------------------
Elements(list) == {list[i] : i \in DOMAIN list}

Socket == Tab \X (1..MaxConnections)
SocketOf(t) == <<t, connection[t]>>
UserOf(s) == who[s[1]]

Press == Nat \ {0}
Message == [tab : Tab, press : Press, kept : BOOLEAN]
Snapshot == [version : Nat, minimum : Nat, canBid : BOOLEAN, canChat : BOOLEAN]
NoSnapshot == [version |-> -1, minimum |-> 0, canBid |-> FALSE, canChat |-> FALSE]

BidIntent == [event : {"bid"}, press : Press, amount : Nat, suggested : BOOLEAN, seen : Nat]
Request ==
  [event : {"join"}, press : {0}] \union BidIntent
    \union [event : {"chat"}, press : Press, message : Message]

Packet ==
  [event : {"snapshot"}, snapshot : Snapshot]
    \union [event : {"bidAnswer"}, press : Press]
    \union [event : {"message"}, message : Message]
    \union [event : {"chatAnswer"}, message : Message, sent : BOOLEAN]

Bid == [user : User, amount : Nat, suggested : BOOLEAN, seen : Nat, version : Nat]

Init ==
  /\ who \in Visitors
  /\ status = "UPCOMING" /\ over = FALSE /\ version = 0 /\ bids = <<>>
  /\ room = {} /\ joins = {} /\ waiting = {} /\ chatting = {} /\ told = <<>>
  /\ connection = [t \in Tab |-> 0] /\ live = [t \in Tab |-> FALSE]
  /\ buffer = [t \in Tab |-> <<>>]
  /\ up = [s \in Socket |-> <<>>] /\ down = [t \in Tab |-> <<>>]
  /\ shown = [t \in Tab |-> NoSnapshot]
  /\ pending = [t \in Tab |-> 0] /\ sending = pending
  /\ messages = [t \in Tab |-> <<>>] /\ confirmed = [t \in Tab |-> {}]
  /\ presses = [t \in Tab |-> 0] /\ faults = 0

-----------------------------------------------------------------------------
(* Snapshots. *)

getMinimumNextBidMinor(list) ==
  IF list = <<>> THEN StartingBid ELSE list[Len(list)].amount + MinimumIncrement

\* For user u, or for nobody in particular.
buildSnapshot(u) ==
  [version |-> version', minimum |-> getMinimumNextBidMinor(bids'),
   canBid |-> u \notin {NoUser, Seller} /\ status' = "ACTIVE" /\ ~over',
   canChat |-> u # NoUser]

SnapshotFor(u) == [event |-> "snapshot", snapshot |-> buildSnapshot(u)]

isNewerSnapshot(current, next) == next.version >= current.version

-----------------------------------------------------------------------------
(* The page. *)

\* Socket.IO sends at once on an open connection and keeps packets otherwise.
Emit(t, packet) ==
  IF live[t]
  THEN /\ up' = [up EXCEPT ![SocketOf(t)] = Append(@, packet)]
       /\ UNCHANGED buffer
  ELSE /\ buffer' = [buffer EXCEPT ![t] = Append(@, packet)]
       /\ UNCHANGED up

Total(count) == Cardinality(UNION {{t} \X (1..count[t]) : t \in Tab})

Count(t) ==
  /\ Total(presses) < MaxPresses
  /\ presses' = [presses EXCEPT ![t] = @ + 1]

\* The amount is the typed one, or the minimum of the snapshot on the page; an
\* amount of nothing, as the minimum may be, is not sent.
PressBid(t) ==
  /\ shown[t].canBid /\ pending[t] = 0
  /\ Count(t)
  /\ pending' = [pending EXCEPT ![t] = presses[t] + 1]
  /\ \E suggested \in BOOLEAN :
       \E amount \in (IF suggested THEN {shown[t].minimum} ELSE Typed) \ {0} :
         Emit(t, [event |-> "bid", press |-> presses[t] + 1, amount |-> amount,
                  suggested |-> suggested, seen |-> shown[t].version])
  /\ UNCHANGED <<who, auction, room, handlers, told, connection, live, down,
                 shown, sending, messages, confirmed, faults>>

PressSend(t) ==
  /\ shown[t].canChat /\ sending[t] = 0
  /\ Count(t)
  /\ sending' = [sending EXCEPT ![t] = presses[t] + 1]
  /\ Emit(t, [event |-> "chat", press |-> presses[t] + 1,
              message |-> [tab |-> t, press |-> presses[t] + 1, kept |-> ~live[t]]])
  /\ UNCHANGED <<who, auction, room, handlers, told, connection, live, down,
                 shown, pending, messages, confirmed, faults>>

\* The kept packets go first, then the page joins the room.
Connect(t) ==
  /\ ~live[t] /\ Total(connection) < MaxConnections /\ <<t, connection[t] + 1>> \in Socket
  /\ connection' = [connection EXCEPT ![t] = @ + 1]
  /\ live' = [live EXCEPT ![t] = TRUE]
  /\ up' = [up EXCEPT ![<<t, connection[t] + 1>>] =
              Append(buffer[t], [event |-> "join", press |-> 0])]
  /\ buffer' = [buffer EXCEPT ![t] = <<>>]
  /\ UNCHANGED <<who, auction, room, handlers, told, down, page, presses, faults>>

\* What was asked fails at once.
Drop(t) ==
  /\ live[t] /\ live' = [live EXCEPT ![t] = FALSE]
  /\ down' = [down EXCEPT ![t] = <<>>]
  /\ pending' = [pending EXCEPT ![t] = 0] /\ sending' = [sending EXCEPT ![t] = 0]
  /\ UNCHANGED <<who, auction, room, handlers, told, connection, buffer, up,
                 shown, messages, confirmed, presses, faults>>

\* Five seconds without an answer: a failure, whatever became of the request.  It
\* is not sent if it was still kept.
GiveUp(t, p) ==
  /\ p # 0
  /\ \/ \E i \in DOMAIN buffer[t] :
          /\ buffer[t][i].press = p
          /\ buffer' = [buffer EXCEPT ![t] = SubSeq(@, 1, i - 1) \o SubSeq(@, i + 1, Len(@))]
     \/ (\A i \in DOMAIN buffer[t] : buffer[t][i].press # p) /\ UNCHANGED buffer
  /\ UNCHANGED <<who, auction, room, handlers, told, connection, live, up, down,
                 shown, messages, confirmed, presses, faults>>

BidTimesOut(t) ==
  GiveUp(t, pending[t]) /\ pending' = [pending EXCEPT ![t] = 0] /\ UNCHANGED sending
SendTimesOut(t) ==
  GiveUp(t, sending[t]) /\ sending' = [sending EXCEPT ![t] = 0] /\ UNCHANGED pending

\* The last ChatLimit messages.
handleMessage(list, m) ==
  IF m \in Elements(list) THEN list
  ELSE IF Len(list) < ChatLimit THEN Append(list, m)
  ELSE Append(SubSeq(list, Len(list) - ChatLimit + 2, Len(list)), m)

HearSnapshot(t, p) ==
  /\ p.event = "snapshot"
  /\ shown' = [shown EXCEPT ![t] = IF isNewerSnapshot(@, p.snapshot) THEN p.snapshot ELSE @]
  /\ UNCHANGED <<pending, sending, messages, confirmed>>

HearBidAnswer(t, p) ==
  /\ p.event = "bidAnswer"
  /\ pending' = [pending EXCEPT ![t] = IF @ = p.press THEN 0 ELSE @]
  /\ UNCHANGED <<shown, sending, messages, confirmed>>

HearMessage(t, p) ==
  /\ p.event = "message"
  /\ messages' = [messages EXCEPT ![t] = handleMessage(@, p.message)]
  /\ UNCHANGED <<shown, pending, sending, confirmed>>

HearChatAnswer(t, p) ==
  /\ p.event = "chatAnswer"
  /\ LET mine == sending[t] = p.message.press
     IN /\ sending' = [sending EXCEPT ![t] = IF mine THEN 0 ELSE @]
        /\ confirmed' = [confirmed EXCEPT ![t] =
                           IF mine /\ p.sent THEN @ \union {p.message} ELSE @]
  /\ UNCHANGED <<shown, pending, messages>>

Hear(t) ==
  /\ live[t] /\ down[t] # <<>>
  /\ down' = [down EXCEPT ![t] = Tail(@)]
  /\ LET p == Head(down[t])
     IN \/ HearSnapshot(t, p) \/ HearBidAnswer(t, p)
        \/ HearMessage(t, p) \/ HearChatAnswer(t, p)
  /\ UNCHANGED <<who, auction, room, handlers, told, connection, live, buffer, up,
                 presses, faults>>

-----------------------------------------------------------------------------
(* The server. *)

\* A packet reaches a client only over the connection it believes in, so it does
\* not matter when the server notices that one is lost.
Reaches(s, t) == live[t] /\ SocketOf(t) = s
RoomReaches(t) == live[t] /\ SocketOf(t) \in room

Answer(s, packet) ==
  down' = [t \in Tab |-> IF Reaches(s, t) THEN Append(down[t], packet) ELSE down[t]]

\* A packet for the caller and one for the room, in this order or the other.
AnswerThenTell(s, answer, packet) ==
  down' = [t \in Tab |->
    down[t] \o (IF Reaches(s, t) THEN <<answer>> ELSE <<>>)
            \o (IF RoomReaches(t) THEN <<packet>> ELSE <<>>)]
TellThenAnswer(s, packet, answer) ==
  down' = [t \in Tab |->
    down[t] \o (IF RoomReaches(t) THEN <<packet>> ELSE <<>>)
            \o (IF Reaches(s, t) THEN <<answer>> ELSE <<>>)]

Fault == faults < MaxFaults /\ faults' = faults + 1

\* What a handler does before its first database call.
Receive(s) ==
  /\ up[s] # <<>> /\ up' = [up EXCEPT ![s] = Tail(@)]
  /\ LET p == Head(up[s])
     IN \/ /\ p.event = "join" /\ room' = room \union {s}
           /\ joins' = joins \union {s}
           /\ UNCHANGED <<waiting, chatting>>
        \/ /\ p.event = "bid" /\ waiting' = waiting \union {[socket |-> s, bid |-> p]}
           /\ UNCHANGED <<room, joins, chatting>>
        \/ /\ p.event = "chat"
           /\ chatting' = chatting \union {[socket |-> s, message |-> p.message]}
           /\ UNCHANGED <<room, joins, waiting>>
  /\ UNCHANGED <<who, auction, told, connection, live, buffer, down, page, presses, faults>>

\* The snapshot is read after the socket has entered the room.
AnswerJoin(s) ==
  /\ joins' = joins \ {s}
  /\ UNCHANGED auction
  /\ Answer(s, SnapshotFor(UserOf(s)))
  /\ UNCHANGED <<who, room, waiting, chatting, told, connection, live, buffer, up,
                 page, presses, faults>>

-----------------------------------------------------------------------------
(* Bids. *)

\* A variant that would be wrong: the leading amount is enough.
AcceptsLeadingAmount(u, amount) ==
  /\ u \notin {NoUser, Seller} /\ status = "ACTIVE" /\ ~over
  /\ amount >= (IF bids = <<>> THEN StartingBid ELSE bids[Len(bids)].amount)

Accepts(u, amount) ==
  /\ u \notin {NoUser, Seller} /\ status = "ACTIVE" /\ ~over
  /\ amount >= getMinimumNextBidMinor(bids)

\* The bid raises the version and the price.
ApplyAcceptedBid(w) ==
  /\ Accepts(UserOf(w.socket), w.bid.amount)
  /\ version' = version + 1
  /\ bids' = Append(bids, [user |-> UserOf(w.socket), amount |-> w.bid.amount,
                           suggested |-> w.bid.suggested, seen |-> w.bid.seen,
                           version |-> version + 1])
  /\ UNCHANGED <<status, over>>

BidAnswer(w) == [event |-> "bidAnswer", press |-> w.bid.press]

\* The answer first, then the snapshot of the bidder, to everybody.
AcceptBid(w) ==
  /\ waiting' = waiting \ {w}
  /\ ApplyAcceptedBid(w)
  /\ AnswerThenTell(w.socket, BidAnswer(w), SnapshotFor(UserOf(w.socket)))
  /\ UNCHANGED <<who, room, joins, chatting, told, connection, live, buffer, up, page,
                 presses, faults>>

Late(w) == UserOf(w.socket) # NoUser /\ status = "ACTIVE" /\ over

RefuseBid(w) ==
  /\ waiting' = waiting \ {w}
  /\ ~Accepts(UserOf(w.socket), w.bid.amount) /\ ~Late(w)
  /\ UNCHANGED auction
  /\ Answer(w.socket, BidAnswer(w))
  /\ UNCHANGED <<who, room, joins, chatting, told, connection, live, buffer, up, page,
                 presses, faults>>

\* A database call fails, before or after the auction document was updated.
BidFails(w) ==
  /\ Fault
  /\ waiting' = waiting \ {w}
  /\ ApplyAcceptedBid(w) \/ UNCHANGED auction
  /\ Answer(w.socket, BidAnswer(w))
  /\ UNCHANGED <<who, room, joins, chatting, told, connection, live, buffer, up, page, presses>>

\* The auction moves on.
Lifecycle(from, to) ==
  /\ status = from /\ status' = to
  /\ version' = version + 1
  /\ UNCHANGED <<over, bids>>

TellRoom(packet) ==
  down' = [t \in Tab |-> IF RoomReaches(t) THEN Append(down[t], packet) ELSE down[t]]

\* By a timer: the snapshot of nobody goes to everybody.
ByTimer ==
  /\ TellRoom(SnapshotFor(NoUser))
  /\ UNCHANGED <<who, room, handlers, told, connection, live, buffer, up, page,
                 presses, faults>>

startAuction == Lifecycle("UPCOMING", "ACTIVE") /\ ByTimer
finalizeAuction == over /\ Lifecycle("ACTIVE", "COMPLETED") /\ ByTimer

\* A bid that comes too late finalizes the auction.
RefuseLateBid(w) ==
  /\ waiting' = waiting \ {w}
  /\ Late(w) /\ Lifecycle("ACTIVE", "COMPLETED")
  /\ AnswerThenTell(w.socket, BidAnswer(w), SnapshotFor(UserOf(w.socket)))
  /\ UNCHANGED <<who, room, joins, chatting, told, connection, live, buffer, up, page,
                 presses, faults>>

EndPasses ==
  /\ status = "ACTIVE" /\ ~over /\ over' = TRUE
  /\ UNCHANGED <<who, status, version, bids, room, handlers, told, network, page,
                 presses, faults>>

-----------------------------------------------------------------------------
(* Chat.  Nothing reads the stored messages.                               *)

\* A variant that would be wrong: the sender is answered first.
TellMessageLate(c) ==
  AnswerThenTell(c.socket, [event |-> "chatAnswer", message |-> c.message, sent |-> TRUE],
                 [event |-> "message", message |-> c.message])

\* The room first, then the answer.
TellMessage(c) ==
  TellThenAnswer(c.socket, [event |-> "message", message |-> c.message],
                 [event |-> "chatAnswer", message |-> c.message, sent |-> TRUE])

handleChatSend(c) ==
  /\ UserOf(c.socket) # NoUser /\ chatting' = chatting \ {c}
  /\ told' = Append(told, c.message)
  /\ TellMessage(c)
  /\ UNCHANGED <<who, auction, room, joins, waiting, connection, live, buffer, up, page,
                 presses, faults>>

NotSent(c) ==
  /\ chatting' = chatting \ {c}
  /\ Answer(c.socket, [event |-> "chatAnswer", message |-> c.message, sent |-> FALSE])
  /\ UNCHANGED <<who, auction, room, joins, waiting, told, connection, live, buffer, up, page,
                 presses>>

RefuseMessage(c) == UserOf(c.socket) = NoUser /\ NotSent(c) /\ UNCHANGED faults

\* The message may have been stored all the same.
ChatFails(c) == Fault /\ NotSent(c)

-----------------------------------------------------------------------------
Page(t) ==
  \/ PressBid(t) \/ PressSend(t)
  \/ Connect(t) \/ Drop(t)
  \/ BidTimesOut(t) \/ SendTimesOut(t)
  \/ Hear(t)

Server ==
  \/ \E s \in Socket : Receive(s)
  \/ \E s \in joins : AnswerJoin(s)
  \/ \E w \in waiting : AcceptBid(w) \/ RefuseBid(w) \/ RefuseLateBid(w) \/ BidFails(w)
  \/ startAuction \/ EndPasses \/ finalizeAuction
  \/ \E c \in chatting : handleChatSend(c) \/ RefuseMessage(c) \/ ChatFails(c)

Next == (\E t \in Tab : Page(t)) \/ Server

Spec == Init /\ [][Next]_vars

-----------------------------------------------------------------------------
(* Properties. *)

TypeOK ==
  /\ who \in Visitors
  /\ status \in {"UPCOMING", "ACTIVE", "COMPLETED"} /\ over \in BOOLEAN
  /\ version \in Nat /\ bids \in Seq(Bid)
  /\ room \subseteq Socket
  /\ joins \subseteq Socket
  /\ waiting \subseteq [socket : Socket, bid : BidIntent]
  /\ chatting \subseteq [socket : Socket, message : Message]
  /\ told \in Seq(Message)
  /\ connection \in [Tab -> 0..MaxConnections] /\ live \in [Tab -> BOOLEAN]
  /\ buffer \in [Tab -> Seq(Request)]
  /\ up \in [Socket -> Seq(Request)] /\ down \in [Tab -> Seq(Packet)]
  /\ shown \in [Tab -> Snapshot \union {NoSnapshot}]
  /\ pending \in [Tab -> Nat] /\ sending \in [Tab -> Nat]
  /\ messages \in [Tab -> Seq(Message)] /\ confirmed \in [Tab -> SUBSET Message]
  /\ presses \in [Tab -> Nat] /\ faults \in 0..MaxFaults

\* A bid of the suggested amount is accepted only if the page it was pressed on
\* showed the auction after the bid before it.  So pressing again after a
\* timeout cannot raise one's own bid unseen, though every press is a new
\* request (useBidIntent, placeBidInQueue).
SuggestionsAreInformed ==
  \A i \in DOMAIN bids : i > 1 /\ bids[i].suggested => bids[i].seen >= bids[i - 1].version

Place(m) == CHOOSE i \in DOMAIN told : told[i] = m

\* Every page shows messages in the order in which the room was told them, none
\* twice; and a message reported as sent is among them, or later ones have
\* pushed it out, unless it was kept for the next connection and may have
\* overtaken its join (handleChatSend, useAuctionChat).
ChatIsTrue ==
  \A t \in Tab :
    /\ Len(messages[t]) <= ChatLimit
    /\ Elements(messages[t]) \subseteq Elements(told)
    /\ \A i, j \in DOMAIN messages[t] : i < j => Place(messages[t][i]) < Place(messages[t][j])
    /\ \A m \in confirmed[t] : m.kept \/ m \in Elements(messages[t])
         \/ /\ Len(messages[t]) = ChatLimit
            /\ \A n \in Elements(messages[t]) : Place(m) < Place(n)

-----------------------------------------------------------------------------
(* The inductive invariant. *)

\* A minimum shown at this version can no longer be bid once a bid has come
\* after that version.
Dated(v, minimum) ==
  /\ v <= version /\ minimum <= getMinimumNextBidMinor(bids)
  /\ \A i \in DOMAIN bids : v < bids[i].version => minimum <= bids[i].amount

\* Suggestions on their way are dated, and messages name the tab they are from.
Sound(p, t) ==
  /\ p.event = "bid" /\ p.suggested => Dated(p.seen, p.amount)
  /\ p.event = "chat" => p.message.tab = t

Ledger == \A i \in DOMAIN bids : bids[i].version <= version

RequestsSound ==
  /\ \A t \in Tab : \A p \in Elements(buffer[t]) : Sound(p, t)
  /\ \A s \in Socket : \A p \in Elements(up[s]) : Sound(p, s[1])
  /\ \A w \in waiting : Sound(w.bid, w.socket[1])
  /\ \A c \in chatting : c.message.tab = c.socket[1]

SnapshotsDated ==
  \A t \in Tab :
    /\ Dated(shown[t].version, shown[t].minimum)
    /\ \A p \in Elements(down[t]) :
         p.event = "snapshot" => Dated(p.snapshot.version, p.snapshot.minimum)

\* Every suggestion, wherever it is, carries the price of a state that was, and
\* prices only rise (buildSnapshot, useBidIntent, applyAcceptedBid).
FInv ==
  /\ TypeOK /\ Ledger /\ RequestsSound /\ SnapshotsDated
  /\ SuggestionsAreInformed

-----------------------------------------------------------------------------
(* The inductive invariant of the chat. *)

Texts(list) == {p.message : p \in {q \in Elements(list) : q.event = "chat"}}
Handled == {c.message : c \in chatting}

NoneTwice(list) ==
  \A i, j \in DOMAIN list :
    list[i].event = "chat" /\ list[j].event = "chat" /\ list[i].message = list[j].message
      => i = j

\* A message is in one place at a time: kept, on its way, with its handler, or
\* told; and it has a number its tab has given.
OnePlace ==
  /\ \A t \in Tab :
       /\ NoneTwice(buffer[t])
       /\ \A m \in Texts(buffer[t]) :
            /\ m.press <= presses[m.tab] /\ m \notin Handled \union Elements(told)
            /\ \A s \in Socket : m \notin Texts(up[s])
  /\ \A s \in Socket :
       /\ NoneTwice(up[s])
       /\ \A m \in Texts(up[s]) :
            /\ m.press <= presses[m.tab] /\ m \notin Handled \union Elements(told)
            /\ \A r \in Socket \ {s} : m \notin Texts(up[r])
  /\ \A c \in chatting :
       /\ c.message.press <= presses[c.message.tab] /\ c.message \notin Elements(told)
       /\ \A d \in chatting : c.message = d.message => c = d
  /\ \A m \in Elements(told) : m.press <= presses[m.tab]
  /\ \A i, j \in DOMAIN told : told[i] = told[j] => i = j

JoinBefore(s, i) == s \in room \/ \E j \in DOMAIN up[s] : j < i /\ up[s][j].event = "join"

\* A connection asks for the room before it sends a message that was not kept
\* for it.
JoinsFirst ==
  /\ \A t \in Tab : live[t] =>
       /\ SocketOf(t) \in Socket
       /\ SocketOf(t) \in room \/ \E p \in Elements(up[SocketOf(t)]) : p.event = "join"
  /\ \A t \in Tab : \A m \in Texts(buffer[t]) : m.kept
  /\ \A s \in Socket : \A i \in DOMAIN up[s] :
       up[s][i].event = "chat" /\ ~up[s][i].message.kept => JoinBefore(s, i)
  /\ \A c \in chatting : c.message.kept \/ c.socket \in room

Before(order, m, n) == \E i, j \in DOMAIN order : i < j /\ order[i] = m /\ order[j] = n

\* What a page shows and what is coming to it have the order of the room.
Ordered(order, list, coming) ==
  /\ Len(list) <= ChatLimit
  /\ Elements(list) \subseteq Elements(order)
  /\ \A i, j \in DOMAIN list : i < j => Before(order, list[i], list[j])
  /\ \A j \in DOMAIN coming : coming[j].event = "message" =>
       /\ coming[j].message \in Elements(order)
       /\ \A m \in Elements(list) : Before(order, m, coming[j].message)
       /\ \A i \in DOMAIN coming : i < j /\ coming[i].event = "message" =>
            Before(order, coming[i].message, coming[j].message)

\* Shown, or pushed out by later ones.
Seen(order, list, m) ==
  \/ m \in Elements(list)
  \/ Len(list) = ChatLimit /\ \A n \in Elements(list) : Before(order, m, n)

\* No answer overtakes its message.
Answered(order, list, coming, reported) ==
  /\ \A m \in reported : m.kept \/ Seen(order, list, m)
  /\ \A j \in DOMAIN coming :
       coming[j].event = "chatAnswer" /\ coming[j].sent /\ ~coming[j].message.kept =>
         \/ Seen(order, list, coming[j].message)
         \/ \E i \in DOMAIN coming : i < j /\ coming[i].event = "message"
                                     /\ coming[i].message = coming[j].message

InOrder == \A t \in Tab : Ordered(told, messages[t], down[t])
AnswersLast == \A t \in Tab : Answered(told, messages[t], down[t], confirmed[t])

\* A message is told once, to everyone in the room in the same order, its sender
\* among them unless it overtook the join, and before its sender is answered
\* (handleChatSend, useAuctionChat).
ChatInv == OnePlace /\ JoinsFirst /\ InOrder /\ AnswersLast
=============================================================================
