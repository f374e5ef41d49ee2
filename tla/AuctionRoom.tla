---------------------------- MODULE AuctionRoom -----------------------------
(***************************************************************************)
(* The live rooms: the socket handlers of the API, the presence service    *)
(* and the room page of the web client, joined by Socket.IO.               *)
(*                                                                         *)
(* A tab has one page at a time and one connection at a time; a connection *)
(* is a socket <<tab, n>>.  Either side may notice that a connection is    *)
(* gone before the other does.  Packets of one socket keep their order in  *)
(* each direction.  What a handler does before its first database call is  *)
(* one step (the in-memory adapter joins and leaves rooms at once), each   *)
(* database call is a step, and so is what follows it.                     *)
(*                                                                         *)
(* The auction is its version: every change made by AuctionEngine raises   *)
(* it, and the last sequence never moves without it.  A snapshot is the    *)
(* auction and version it was built from; statistics, which the client     *)
(* overwrites without a check, and the other fields are left out.  The     *)
(* acknowledgement of a request repeats to the page what the snapshot or   *)
(* room:error event just before it said, so the two are one packet.        *)
(*                                                                         *)
(* Some definitions are preceded by a variant with a mistake in it, used   *)
(* by no action; the README says which property each of them breaks.       *)
(***************************************************************************)
EXTENDS Integers, Sequences, SequencesExt

CONSTANTS
  Tab,              \* browser tabs, each with its SocketClient
  Auction,          \* auctions, each with its room
  NoAuction,        \* no room page is open
  NoSocket,         \* the caller of a timer or of a REST request
  MaxConnections,   \* bound: connections of one tab
  MaxRequests,      \* bound: joins and resyncs of one tab
  MaxCalls,         \* bound: calls that change an auction, or might
  MaxFaults         \* bound: failed database calls

ASSUME RoomAssumption ==
  /\ NoAuction \notin Auction /\ NoSocket \notin Tab \X Nat
  /\ MaxConnections \in Nat /\ MaxRequests \in Nat
  /\ MaxCalls \in Nat /\ MaxFaults \in Nat

VARIABLES
  version,         \* the version in the auction document
  announced,       \* history: the highest version broadcast to the room
  online,          \* sockets the server holds open
  room,            \* Socket.IO: the sockets in the room of an auction
  auctionSockets,  \* presence: the sockets present in an auction
  socketAuctions,  \* presence: the auctions a socket is present in
  work,            \* handlers that wait for the database
  calls,           \* calls to the engine so far
  faults,          \* failures so far
  connection,      \* the connections a tab has made
  live,            \* the one its client believes in, 0 when there is none
  buffer,          \* packets kept until there is one
  up, down,        \* packets on their way to the server, to the client
  open,            \* the auction whose page the tab shows
  shown,           \* the snapshot on that page
  strayed,         \* history: the page has heard a snapshot of another auction
  status,          \* the connection status on that page
  sent,            \* requests the tab has made
  waiting          \* those of the page not yet answered or timed out

serverVars == <<version, announced, online, room, auctionSockets, socketAuctions, work,
                calls, faults>>
presenceVars == <<room, auctionSockets, socketAuctions>>
pageVars == <<open, shown, strayed, status, waiting>>
clientVars == <<connection, live, buffer, pageVars, sent>>
vars == <<serverVars, clientVars, up, down>>

-----------------------------------------------------------------------------

Socket == Tab \X (1..MaxConnections)
SocketOf(t) == <<t, live[t]>>
Version == 0..MaxCalls
NotRead == -1

Status == {"idle", "joining", "joined", "reconnecting", "error"}
Snapshot == [auction : Auction, version : Version]
NoSnapshot == [auction |-> NoAuction, version |-> NotRead]

Request == [event : {"join", "resync", "leave"}, auction : Auction, request : 0..MaxRequests]
Packet ==
  [event : {"snapshot"}, auction : Auction, version : Version, request : 0..MaxRequests]
    \union
  [event : {"error"}, auction : Auction, version : {NotRead}, request : 0..MaxRequests]
Work == [handler : {"join", "resync", "change", "payment"}, socket : Socket \union {NoSocket},
         auction : Auction, version : Version \union {NotRead}, request : 0..MaxRequests]

Init ==
  /\ version = [a \in Auction |-> 0] /\ announced = version
  /\ online = {} /\ room = [a \in Auction |-> {}]
  /\ auctionSockets = room /\ socketAuctions = [s \in Socket |-> {}]
  /\ work = {} /\ calls = 0 /\ faults = 0
  /\ connection = [t \in Tab |-> 0] /\ live = connection
  /\ buffer = [t \in Tab |-> <<>>]
  /\ up = [s \in Socket |-> <<>>] /\ down = up
  /\ open = [t \in Tab |-> NoAuction] /\ shown = [t \in Tab |-> NoSnapshot]
  /\ strayed = [t \in Tab |-> FALSE] /\ status = [t \in Tab |-> "idle"]
  /\ sent = [t \in Tab |-> 0] /\ waiting = [t \in Tab |-> {}]

-----------------------------------------------------------------------------
(* The client. *)

\* Socket.IO sends at once on an open connection and keeps packets otherwise.
Emit(t, packets) ==
  IF live[t] # 0
  THEN /\ up' = [up EXCEPT ![SocketOf(t)] = @ \o packets]
       /\ UNCHANGED buffer
  ELSE /\ buffer' = [buffer EXCEPT ![t] = @ \o packets]
       /\ UNCHANGED up

Ask(t, event, a) == [event |-> event, auction |-> a, request |-> sent[t] + 1]

Count(t) ==
  /\ sent[t] < MaxRequests
  /\ sent' = [sent EXCEPT ![t] = @ + 1]

\* The page of an auction is opened.
OpenPage(t, a) ==
  /\ open[t] = NoAuction
  /\ Count(t)
  /\ Emit(t, <<Ask(t, "join", a)>>)
  /\ open' = [open EXCEPT ![t] = a]
  /\ status' = [status EXCEPT ![t] = IF live[t] # 0 THEN "joining" ELSE "reconnecting"]
  /\ waiting' = [waiting EXCEPT ![t] = {sent[t] + 1}]
  /\ UNCHANGED <<serverVars, connection, live, shown, strayed, down>>

\* It is closed: its listeners go, and with them what it would do on an answer.
ClosePage(t) ==
  /\ open[t] # NoAuction
  /\ Emit(t, <<[event |-> "leave", auction |-> open[t], request |-> 0]>>)
  /\ open' = [open EXCEPT ![t] = NoAuction]
  /\ shown' = [shown EXCEPT ![t] = NoSnapshot]
  /\ strayed' = [strayed EXCEPT ![t] = FALSE]
  /\ status' = [status EXCEPT ![t] = "idle"]
  /\ waiting' = [waiting EXCEPT ![t] = {}]
  /\ UNCHANGED <<serverVars, connection, live, sent, down>>

resync(t) ==
  /\ open[t] # NoAuction
  /\ Count(t)
  /\ Emit(t, <<Ask(t, "resync", open[t])>>)
  /\ waiting' = [waiting EXCEPT ![t] = @ \union {sent[t] + 1}]
  /\ UNCHANGED <<serverVars, connection, live, open, shown, strayed, status, down>>

\* On a new connection the kept packets go first; then the open page joins.
JoinOnConnectForgotten(t) == <<>>
JoinOnConnect(t) == IF open[t] = NoAuction THEN <<>> ELSE <<Ask(t, "join", open[t])>>

Connect(t) ==
  LET s == <<t, connection[t] + 1>> IN
  /\ live[t] = 0 /\ connection[t] < MaxConnections
  /\ connection' = [connection EXCEPT ![t] = @ + 1]
  /\ live' = [live EXCEPT ![t] = connection[t] + 1]
  /\ online' = online \union {s}
  /\ up' = [up EXCEPT ![s] = buffer[t] \o JoinOnConnect(t)]
  /\ buffer' = [buffer EXCEPT ![t] = <<>>]
  /\ IF open[t] = NoAuction
     THEN UNCHANGED <<sent, status, waiting>>
     ELSE /\ Count(t)
          /\ status' = [status EXCEPT ![t] = "joining"]
          /\ waiting' = [waiting EXCEPT ![t] = @ \union {sent[t] + 1}]
  /\ UNCHANGED <<version, announced, presenceVars, work, calls, faults, down, open, shown,
                 strayed>>

\* The client loses its connection.  Requests already sent fail at once.
Drop(t) ==
  /\ live[t] # 0
  /\ live' = [live EXCEPT ![t] = 0]
  /\ down' = [down EXCEPT ![SocketOf(t)] = <<>>]
  /\ status' = [status EXCEPT ![t] =
       IF open[t] = NoAuction THEN @ ELSE IF waiting[t] # {} THEN "error" ELSE "reconnecting"]
  /\ waiting' = [waiting EXCEPT ![t] = {}]
  /\ UNCHANGED <<serverVars, connection, buffer, sent, up, open, shown, strayed>>

\* The access token changes: the listeners are taken off before the socket is
\* closed, so no page hears of it, and the kept packets go with the socket.
ChangeToken(t) ==
  /\ live' = [live EXCEPT ![t] = 0]
  /\ buffer' = [buffer EXCEPT ![t] = <<>>]
  /\ IF live[t] = 0
     THEN /\ buffer[t] # <<>>
          /\ UNCHANGED <<down, status, waiting>>
     ELSE /\ down' = [down EXCEPT ![SocketOf(t)] = <<>>]
          /\ status' = [status EXCEPT ![t] = IF waiting[t] # {} THEN "error" ELSE @]
          /\ waiting' = [waiting EXCEPT ![t] = {}]
  /\ UNCHANGED <<serverVars, connection, sent, up, open, shown, strayed>>

\* An acknowledgement is five seconds late; a request still kept is given up.
AckTimeout(t, r) ==
  /\ \/ \E i \in DOMAIN buffer[t] :
          /\ buffer[t][i].request = r
          /\ buffer' = [buffer EXCEPT ![t] = RemoveAt(@, i)]
     \/ /\ r \in waiting[t]
        /\ \A i \in DOMAIN buffer[t] : buffer[t][i].request # r
        /\ UNCHANGED buffer
  /\ waiting' = [waiting EXCEPT ![t] = @ \ {r}]
  /\ status' = [status EXCEPT ![t] = IF r \in waiting[t] THEN "error" ELSE @]
  /\ UNCHANGED <<serverVars, connection, live, sent, up, down, open, shown, strayed>>

IsSnapshotUnchecked(p) == TRUE
IsSnapshot(p) == p.event = "snapshot"

isNewerSnapshotUnchecked(current, next) == TRUE
isNewerSnapshot(current, next) == current = NoSnapshot \/ next.version >= current.version

\* The page hears an event.  It does not ask which auction a snapshot is of.
Hear(t) ==
  LET s == SocketOf(t)
      p == Head(down[s])
      next == [auction |-> p.auction, version |-> p.version]
  IN
  /\ live[t] # 0 /\ down[s] # <<>>
  /\ down' = [down EXCEPT ![s] = Tail(@)]
  /\ IF open[t] = NoAuction
     THEN UNCHANGED <<shown, strayed, status, waiting>>
     ELSE /\ waiting' = [waiting EXCEPT ![t] = @ \ {p.request}]
          /\ IF IsSnapshot(p)
             THEN /\ status' = [status EXCEPT ![t] = "joined"]
                  /\ shown' = [shown EXCEPT ![t] =
                       IF isNewerSnapshot(@, next) THEN next ELSE @]
                  /\ strayed' = [strayed EXCEPT ![t] = @ \/ p.auction # open[t]]
             ELSE /\ status' = [status EXCEPT ![t] = "error"]
                  /\ UNCHANGED <<shown, strayed>>
  /\ UNCHANGED <<serverVars, connection, live, buffer, sent, up, open>>

-----------------------------------------------------------------------------
(* Presence. *)

join(a, s) ==
  /\ auctionSockets' = [auctionSockets EXCEPT ![a] = @ \union {s}]
  /\ socketAuctions' = [socketAuctions EXCEPT ![s] = @ \union {a}]

leave(a, s) ==
  /\ auctionSockets' = [auctionSockets EXCEPT ![a] = @ \ {s}]
  /\ socketAuctions' = [socketAuctions EXCEPT ![s] = @ \ {a}]

leaveAllForgotten(s) == UNCHANGED <<auctionSockets, socketAuctions>>
leaveAll(s) ==
  /\ auctionSockets' =
       [a \in Auction |-> auctionSockets[a] \ (IF a \in socketAuctions[s] THEN {s} ELSE {})]
  /\ socketAuctions' = [socketAuctions EXCEPT ![s] = {}]

-----------------------------------------------------------------------------
(* The socket handlers. *)

Started(handler, s, p) ==
  work' = work \union {[handler |-> handler, socket |-> s, auction |-> p.auction,
                         version |-> NotRead, request |-> p.request]}

handleJoin(s, p) ==
  /\ room' = [room EXCEPT ![p.auction] = @ \union {s}]
  /\ join(p.auction, s)
  /\ Started("join", s, p)

handleResync(s, p) ==
  /\ Started("resync", s, p)
  /\ UNCHANGED presenceVars

handleLeave(s, p) ==
  /\ room' = [room EXCEPT ![p.auction] = @ \ {s}]
  /\ leave(p.auction, s)
  /\ UNCHANGED work

Handle(s, p) ==
  \/ p.event = "join" /\ handleJoin(s, p)
  \/ p.event = "resync" /\ handleResync(s, p)
  \/ p.event = "leave" /\ handleLeave(s, p)

\* The server takes the next packet of a socket it holds open.
Receive(s) ==
  /\ s \in online /\ up[s] # <<>>
  /\ up' = [up EXCEPT ![s] = Tail(@)]
  /\ Handle(s, Head(up[s]))
  /\ UNCHANGED <<version, announced, online, calls, faults, clientVars, down>>

\* The server notices that a socket is gone; Socket.IO takes it out of its rooms.
handleDisconnect(s) ==
  /\ s \in online
  /\ online' = online \ {s}
  /\ room' = [a \in Auction |-> room[a] \ {s}]
  /\ leaveAll(s)
  /\ up' = [up EXCEPT ![s] = <<>>]
  /\ UNCHANGED <<version, announced, work, calls, faults, clientVars, down>>

\* The engine changes an auction, or finds a bid made again and changes nothing,
\* one call at a time; the caller broadcasts the snapshot it is given.
Change(a, s) ==
  /\ s \in online \union {NoSocket}
  /\ \A w \in work : w.handler = "change" => w.auction # a
  /\ calls < MaxCalls /\ calls' = calls + 1
  /\ \E v \in {version[a], version[a] + 1} :
       /\ version' = [version EXCEPT ![a] = v]
       /\ work' = work \union {[handler |-> "change", socket |-> s, auction |-> a,
                                 version |-> v, request |-> 0]}
  /\ UNCHANGED <<announced, online, presenceVars, faults, clientVars, up, down>>

\* A payment has changed; the room is told, outside the queue of the engine.
broadcastPaymentState(a) ==
  /\ calls < MaxCalls /\ calls' = calls + 1
  /\ work' = work \union {[handler |-> "payment", socket |-> NoSocket, auction |-> a,
                           version |-> NotRead, request |-> 0]}
  /\ UNCHANGED <<version, announced, online, presenceVars, faults, clientVars, up, down>>

\* getSnapshot loads the auction.
LoadAuction(w) ==
  /\ w.version = NotRead
  /\ work' = (work \ {w}) \union {[w EXCEPT !.version = version[w.auction]]}
  /\ UNCHANGED <<version, announced, online, presenceVars, calls, faults, clientVars, up, down>>

\* A packet reaches a client only over the connection it believes in.
Send(targets, packet) ==
  down' = [s \in Socket |-> IF s \in targets \intersect online /\ live[s[1]] = s[2]
                            THEN Append(down[s], packet) ELSE down[s]]

Broadcast(w) == w.handler \in {"change", "payment"}
Told(w) == IF Broadcast(w) THEN room[w.auction] ELSE {w.socket}

Respond(w) ==
  /\ w.version # NotRead
  /\ work' = work \ {w}
  /\ Send(Told(w), [event |-> "snapshot", auction |-> w.auction,
                    version |-> w.version, request |-> w.request])
  /\ announced' = IF Broadcast(w) /\ w.version > announced[w.auction]
                  THEN [announced EXCEPT ![w.auction] = w.version] ELSE announced
  /\ UNCHANGED <<version, online, presenceVars, calls, faults, clientVars, up>>

\* A database call fails; the caller is told, nobody else.
handleError(w) ==
  /\ faults < MaxFaults
  /\ faults' = faults + 1
  /\ work' = work \ {w}
  /\ Send({w.socket}, [event |-> "error", auction |-> w.auction,
                       version |-> NotRead, request |-> w.request])
  /\ UNCHANGED <<version, announced, online, presenceVars, calls, clientVars, up>>

-----------------------------------------------------------------------------

Client(t) ==
  \/ \E a \in Auction : OpenPage(t, a)
  \/ ClosePage(t)
  \/ resync(t)
  \/ Connect(t)
  \/ Drop(t)
  \/ ChangeToken(t)
  \/ \E r \in 1..MaxRequests : AckTimeout(t, r)
  \/ Hear(t)

Server ==
  \/ \E s \in online : Receive(s)
  \/ \E s \in online : handleDisconnect(s)
  \/ \E a \in Auction : \E s \in online \union {NoSocket} : Change(a, s)
  \/ \E a \in Auction : broadcastPaymentState(a)
  \/ \E w \in work : LoadAuction(w)
  \/ \E w \in work : Respond(w)
  \/ \E w \in work : handleError(w)

Next == (\E t \in Tab : Client(t)) \/ Server

Spec == Init /\ [][Next]_vars

-----------------------------------------------------------------------------
(* Properties. *)

\* Types: what each variable may hold (auctionRealtime.handler.ts,
\* auctionPresence.service.ts, useAuctionRoom.ts).
TypeOK ==
  /\ version \in [Auction -> Version] /\ announced \in [Auction -> Version]
  /\ online \subseteq Socket /\ room \in [Auction -> SUBSET Socket]
  /\ auctionSockets \in [Auction -> SUBSET Socket]
  /\ socketAuctions \in [Socket -> SUBSET Auction]
  /\ work \subseteq Work /\ calls \in 0..MaxCalls /\ faults \in 0..MaxFaults
  /\ connection \in [Tab -> 0..MaxConnections] /\ live \in [Tab -> 0..MaxConnections]
  /\ buffer \in [Tab -> Seq(Request)]
  /\ up \in [Socket -> Seq(Request)] /\ down \in [Socket -> Seq(Packet)]
  /\ open \in [Tab -> Auction \union {NoAuction}]
  /\ shown \in [Tab -> Snapshot \union {NoSnapshot}]
  /\ strayed \in [Tab -> BOOLEAN] /\ status \in [Tab -> Status]
  /\ sent \in [Tab -> 0..MaxRequests] /\ waiting \in [Tab -> SUBSET (1..MaxRequests)]

\* Presence counts the sockets that are in the room, all of them open, and its
\* two maps say the same, whatever joins, leaves and disconnects overlap.
PresenceIsRoom ==
  /\ auctionSockets = room
  /\ \A a \in Auction : room[a] \subseteq online
  /\ \A s \in Socket : socketAuctions[s] = {a \in Auction : s \in auctionSockets[a]}

\* Nothing more is on its way to the page of tab t, on a connection that both
\* sides hold open.
Quiet(t) ==
  /\ SocketOf(t) \in online
  /\ up[SocketOf(t)] = <<>> /\ down[SocketOf(t)] = <<>>
  /\ \A w \in work : w.socket # SocketOf(t) /\ (Broadcast(w) => w.auction # open[t])

\* An open page is in the room of its auction, so that later changes reach it,
\* over every reconnect and reopening (the join on every connect, the order of
\* leave and join).
OpenPageIsInRoom ==
  \A t \in Tab : open[t] # NoAuction /\ Quiet(t) => SocketOf(t) \in room[open[t]]

\* The page says it is connected.
Settled(t) == open[t] # NoAuction /\ Quiet(t) /\ status[t] = "joined"

\* A page that says so, if no database call failed, shows its own auction unless it
\* has heard a snapshot of another one, and if it shows its own it has missed nothing:
\* it shows the last version broadcast, or a newer one (the socket enters the room
\* before the snapshot is read; newer snapshots win).
JoinedPageIsUpToDate ==
  faults = 0 => \A t \in Tab : Settled(t) =>
    /\ ~strayed[t] => shown[t].auction = open[t]
    /\ shown[t].auction = open[t] => shown[t].version >= announced[open[t]]

\* While a page stays open, what it shows never goes back to an older version.
VersionNeverBack ==
  [][\A t \in Tab : open'[t] = open[t] /\ open[t] # NoAuction
                      => shown'[t].version >= shown[t].version]_vars

-----------------------------------------------------------------------------
(* The inductive invariant. *)

Versions ==
  /\ \A a \in Auction : announced[a] <= version[a] /\ version[a] <= calls
  /\ \A w \in work : w.version <= version[w.auction]

Connections ==
  /\ \A s \in online : s[2] <= connection[s[1]]
  /\ \A t \in Tab : live[t] <= connection[t]

\* A leave of auction a is under way, after place i.
LeaveAfter(q, a, i) == \E j \in DOMAIN q : j > i /\ q[j].event = "leave" /\ q[j].auction = a

\* The last word under way about auction a is a join.
JoinLast(q, a) ==
  \E i \in DOMAIN q : q[i].event = "join" /\ q[i].auction = a /\ ~LeaveAfter(q, a, i)

\* That is so of the room of the open page, or no leave is under way and the socket
\* is in the room.
Joining(t) == JoinLast(up[SocketOf(t)], open[t])
Inside(t) == SocketOf(t) \in room[open[t]] /\ ~LeaveAfter(up[SocketOf(t)], open[t], 0)

\* A connection both sides hold open, with a page open on it.
Watching(t) == live[t] # 0 /\ SocketOf(t) \in online /\ open[t] # NoAuction

\* The page shows version v of something or a newer one, or is about to.
Knows(t, v) ==
  \/ shown[t].version >= v
  \/ \E i \in DOMAIN down[SocketOf(t)] : down[SocketOf(t)][i].version >= v

\* The answer to a join of the open page, yet to be sent, will tell it.
WillKnow(t, v) ==
  \E w \in work : /\ w.handler = "join" /\ w.socket = SocketOf(t)
                  /\ w.auction = open[t] /\ w.version \in {NotRead} \union {n \in Nat : n >= v}

RoomKept == \A t \in Tab : Watching(t) => Joining(t) \/ Inside(t)

NewsKept ==
  faults = 0 => \A t \in Tab : Watching(t) =>
    Joining(t) \/ Knows(t, announced[open[t]]) \/ WillKnow(t, announced[open[t]])

\* Until it hears of another auction, a page shows its own or nothing.
StraysKnown ==
  \A t \in Tab : ~strayed[t] => shown[t].auction \in {NoAuction, open[t]}

\* The packets, rooms and handlers under way make every open page right once they
\* are done (useAuctionRoom.ts, auctionRealtime.handler.ts).
RInv == TypeOK /\ PresenceIsRoom /\ Versions /\ Connections /\ RoomKept /\ NewsKept
        /\ StraysKnown
=============================================================================
