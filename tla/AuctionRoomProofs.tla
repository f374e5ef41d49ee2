------------------------- MODULE AuctionRoomProofs --------------------------
(***************************************************************************)
(* For any tabs, auctions and bounds: presence is the room, an open page   *)
(* is in its room, and a page that says it is connected missed nothing.    *)
(***************************************************************************)
EXTENDS AuctionRoom, TLAPS

USE RoomAssumption

LEMMA InitRInv == Init => RInv
<1> SUFFICES ASSUME Init PROVE RInv
  OBVIOUS
<1>1. TypeOK
  BY DEF Init, TypeOK, Version, Status, Snapshot, NoSnapshot
<1>2. PresenceIsRoom
  BY DEF Init, PresenceIsRoom
<1>3. Versions /\ Connections
  BY DEF Init, Versions, Connections
<1>4. \A t \in Tab : ~Watching(t)
  BY DEF Init, Watching
<1>5. StraysKnown
  BY DEF Init, StraysKnown, NoSnapshot
<1>6. QED
  BY <1>1, <1>2, <1>3, <1>4, <1>5 DEF RInv, RoomKept, NewsKept

-----------------------------------------------------------------------------
(* Types. *)

LEMMA SocketType ==
  ASSUME TypeOK, NEW t \in Tab, live[t] # 0
  PROVE  SocketOf(t) \in Socket
  BY DEF TypeOK, Socket, SocketOf

LEMMA Update ==
  ASSUME NEW S, NEW T, NEW f \in [S -> T], NEW x, x \in S, NEW y, y \in T
  PROVE  [f EXCEPT ![x] = y] \in [S -> T]
  OBVIOUS

LEMMA EmitType ==
  ASSUME TypeOK, NEW t \in Tab, NEW packets \in Seq(Request), Emit(t, packets)
  PROVE  buffer' \in [Tab -> Seq(Request)] /\ up' \in [Socket -> Seq(Request)]
<1>1. CASE live[t] # 0
  <2>1. up[SocketOf(t)] \o packets \in Seq(Request)
    BY <1>1, SocketType DEF TypeOK
  <2>2. up \in [Socket -> Seq(Request)] /\ buffer \in [Tab -> Seq(Request)]
    BY DEF TypeOK
  <2>3. [up EXCEPT ![SocketOf(t)] = up[SocketOf(t)] \o packets] \in [Socket -> Seq(Request)]
    BY <1>1, <2>1, <2>2, SocketType, Update
  <2>4. QED
    BY <1>1, <2>2, <2>3 DEF Emit
<1>2. CASE live[t] = 0
  <2>1. buffer[t] \o packets \in Seq(Request)
    BY DEF TypeOK
  <2>2. up \in [Socket -> Seq(Request)] /\ buffer \in [Tab -> Seq(Request)]
    BY DEF TypeOK
  <2>3. [buffer EXCEPT ![t] = buffer[t] \o packets] \in [Tab -> Seq(Request)]
    BY <2>1, <2>2, Update
  <2>4. QED
    BY <1>2, <2>2, <2>3 DEF Emit
<1>3. QED
  BY <1>1, <1>2

LEMMA AskType ==
  ASSUME TypeOK, NEW t \in Tab, Count(t), NEW event \in {"join", "resync"}, NEW a \in Auction
  PROVE  <<Ask(t, event, a)>> \in Seq(Request)
<1>1. sent[t] + 1 \in 0..MaxRequests
  BY DEF TypeOK, Count
<1>2. Ask(t, event, a) \in Request
  BY <1>1 DEF Ask, Request
<1>3. QED
  BY <1>2

\* A request counted is one more of the page's.
LEMMA CountType ==
  ASSUME TypeOK, NEW t \in Tab, Count(t)
  PROVE  /\ sent' \in [Tab -> 0..MaxRequests]
         /\ [waiting EXCEPT ![t] = {sent[t] + 1}] \in [Tab -> SUBSET (1..MaxRequests)]
         /\ [waiting EXCEPT ![t] = waiting[t] \union {sent[t] + 1}]
              \in [Tab -> SUBSET (1..MaxRequests)]
<1>1. sent \in [Tab -> 0..MaxRequests] /\ waiting \in [Tab -> SUBSET (1..MaxRequests)]
  BY DEF TypeOK
<1>2. sent[t] + 1 \in 1..MaxRequests
  BY <1>1 DEF Count
<1>3. {sent[t] + 1} \in SUBSET (1..MaxRequests)
      /\ waiting[t] \union {sent[t] + 1} \in SUBSET (1..MaxRequests)
  BY <1>1, <1>2
<1>4. sent' \in [Tab -> 0..MaxRequests]
  BY <1>1, <1>2, Update DEF Count
<1>5. QED
  BY <1>1, <1>3, <1>4, Update

LEMMA SendType ==
  ASSUME TypeOK, NEW targets, NEW p \in Packet, Send(targets, p)
  PROVE  down' \in [Socket -> Seq(Packet)]
<1>1. \A s \in Socket : Append(down[s], p) \in Seq(Packet)
  BY DEF TypeOK
<1>2. QED
  BY <1>1 DEF Send, TypeOK

\* The packet that the server takes.
LEMMA TakenType ==
  ASSUME TypeOK, NEW s \in online, up[s] # <<>>
  PROVE  /\ s \in Socket /\ up[s] \in Seq(Request) /\ Tail(up[s]) \in Seq(Request)
         /\ Head(up[s]) \in Request /\ Head(up[s]) = up[s][1]
         /\ Head(up[s]).auction \in Auction /\ Head(up[s]).request \in 0..MaxRequests
<1>1. s \in Socket /\ up[s] \in Seq(Request)
  BY DEF TypeOK
<1>2. Head(up[s]) \in Request /\ Head(up[s]) = up[s][1] /\ Tail(up[s]) \in Seq(Request)
  BY <1>1
<1>3. QED
  BY <1>1, <1>2 DEF Request

LEMMA ClientType ==
  ASSUME TypeOK, NEW t \in Tab, Client(t)
  PROVE  TypeOK'
<1>1. ASSUME NEW a \in Auction, OpenPage(t, a)
      PROVE  TypeOK'
  <2>1. <<Ask(t, "join", a)>> \in Seq(Request)
    BY <1>1, AskType DEF OpenPage
  <2>2. buffer' \in [Tab -> Seq(Request)] /\ up' \in [Socket -> Seq(Request)]
    BY <1>1, <2>1, EmitType DEF OpenPage
  <2>3. sent' \in [Tab -> 0..MaxRequests] /\ waiting' \in [Tab -> SUBSET (1..MaxRequests)]
    BY <1>1, CountType DEF OpenPage
  <2>4. QED
    BY <1>1, <2>2, <2>3 DEF OpenPage, TypeOK, Status, serverVars
<1>2. ASSUME ClosePage(t)
      PROVE  TypeOK'
  <2> DEFINE p == [event |-> "leave", auction |-> open[t], request |-> 0]
  <2>1. p \in Request
    BY <1>2 DEF ClosePage, Request, TypeOK
  <2>2. <<p>> \in Seq(Request)
    BY <2>1
  <2>3. buffer' \in [Tab -> Seq(Request)] /\ up' \in [Socket -> Seq(Request)]
    BY <1>2, <2>2, EmitType DEF ClosePage
  <2>4. QED
    BY <1>2, <2>3 DEF ClosePage, TypeOK, Status, serverVars, NoSnapshot
<1>3. ASSUME resync(t)
      PROVE  TypeOK'
  <2>1. <<Ask(t, "resync", open[t])>> \in Seq(Request)
    BY <1>3, AskType DEF resync, TypeOK
  <2>2. buffer' \in [Tab -> Seq(Request)] /\ up' \in [Socket -> Seq(Request)]
    BY <1>3, <2>1, EmitType DEF resync
  <2>3. sent' \in [Tab -> 0..MaxRequests] /\ waiting' \in [Tab -> SUBSET (1..MaxRequests)]
    BY <1>3, CountType DEF resync
  <2>4. QED
    BY <1>3, <2>2, <2>3 DEF resync, TypeOK, serverVars
<1>4. ASSUME Connect(t)
      PROVE  TypeOK'
  <2> DEFINE s == <<t, connection[t] + 1>>
  <2>1. s \in Socket /\ connection[t] + 1 \in 0..MaxConnections
    BY <1>4 DEF Connect, Socket, TypeOK
  <2>2. JoinOnConnect(t) \in Seq(Request)
    BY <1>4, AskType DEF Connect, JoinOnConnect, TypeOK
  <2>3. buffer[t] \o JoinOnConnect(t) \in Seq(Request)
    BY <2>2 DEF TypeOK
  <2>4. up' \in [Socket -> Seq(Request)] /\ buffer' \in [Tab -> Seq(Request)]
    BY <1>4, <2>1, <2>3 DEF Connect, TypeOK
  <2>5. sent' \in [Tab -> 0..MaxRequests] /\ waiting' \in [Tab -> SUBSET (1..MaxRequests)]
        /\ status' \in [Tab -> Status]
    <3>1. CASE open[t] = NoAuction
      BY <1>4, <3>1 DEF Connect, TypeOK
    <3>2. CASE open[t] # NoAuction
      <4>1. Count(t) /\ status' = [status EXCEPT ![t] = "joining"]
            /\ waiting' = [waiting EXCEPT ![t] = waiting[t] \union {sent[t] + 1}]
        BY <1>4, <3>2 DEF Connect
      <4>2. status' \in [Tab -> Status]
        BY <4>1 DEF TypeOK, Status
      <4>3. QED
        BY <4>1, <4>2, CountType
    <3>3. QED
      BY <3>1, <3>2
  <2>6. online' \subseteq Socket /\ connection' \in [Tab -> 0..MaxConnections]
        /\ live' \in [Tab -> 0..MaxConnections]
    BY <1>4, <2>1 DEF Connect, TypeOK
  <2>7. QED
    BY <1>4, <2>4, <2>5, <2>6 DEF Connect, TypeOK, presenceVars
<1>5. ASSUME Drop(t)
      PROVE  TypeOK'
  BY <1>5, SocketType DEF Drop, TypeOK, Status, serverVars
<1>6. ASSUME ChangeToken(t)
      PROVE  TypeOK'
  <2>1. CASE live[t] = 0
    BY <1>6, <2>1 DEF ChangeToken, TypeOK, serverVars
  <2>2. CASE live[t] # 0
    <3>1. down' \in [Socket -> Seq(Packet)] /\ live' \in [Tab -> 0..MaxConnections]
          /\ buffer' \in [Tab -> Seq(Request)]
      <4>1. down \in [Socket -> Seq(Packet)] /\ live \in [Tab -> 0..MaxConnections]
            /\ buffer \in [Tab -> Seq(Request)]
        BY DEF TypeOK
      <4>2. <<>> \in Seq(Packet) /\ <<>> \in Seq(Request) /\ 0 \in 0..MaxConnections
        OBVIOUS
      <4>3. /\ [down EXCEPT ![SocketOf(t)] = <<>>] \in [Socket -> Seq(Packet)]
            /\ [live EXCEPT ![t] = 0] \in [Tab -> 0..MaxConnections]
            /\ [buffer EXCEPT ![t] = <<>>] \in [Tab -> Seq(Request)]
        BY <2>2, <4>1, <4>2, SocketType
      <4>4. QED
        BY <1>6, <2>2, <4>3 DEF ChangeToken
    <3>2. status' \in {status, [status EXCEPT ![t] = "error"]}
      BY <1>6, <2>2 DEF ChangeToken, TypeOK
    <3>3. status' \in [Tab -> Status] /\ waiting' \in [Tab -> SUBSET (1..MaxRequests)]
      BY <1>6, <2>2, <3>2 DEF ChangeToken, TypeOK, Status
    <3>4. QED
      BY <1>6, <3>1, <3>3 DEF ChangeToken, TypeOK, serverVars
  <2>3. QED
    BY <2>1, <2>2
<1>7. ASSUME NEW r \in 1..MaxRequests, AckTimeout(t, r)
      PROVE  TypeOK'
  <2>1. \A i \in DOMAIN buffer[t] : RemoveAt(buffer[t], i) \in Seq(Request)
    BY DEF TypeOK, RemoveAt
  <2>2. buffer' \in [Tab -> Seq(Request)]
    <3>1. buffer \in [Tab -> Seq(Request)]
      BY DEF TypeOK
    <3>2. CASE UNCHANGED buffer
      BY <3>1, <3>2
    <3>3. CASE \E i \in DOMAIN buffer[t] :
                 buffer' = [buffer EXCEPT ![t] = RemoveAt(buffer[t], i)]
      BY <2>1, <3>1, <3>3, Update
    <3>4. QED
      BY <1>7, <3>2, <3>3 DEF AckTimeout
  <2>3. QED
    BY <1>7, <2>2 DEF AckTimeout, TypeOK, Status, serverVars
<1>8. ASSUME Hear(t)
      PROVE  TypeOK'
  <2> DEFINE s == SocketOf(t)
             p == Head(down[s])
             next == [auction |-> p.auction, version |-> p.version]
  <2>1. p \in Packet /\ Tail(down[s]) \in Seq(Packet) /\ s \in Socket
    BY <1>8, SocketType DEF Hear, TypeOK
  <2>2. IsSnapshot(p) => next \in Snapshot
    BY <2>1 DEF IsSnapshot, Packet, Snapshot
  <2>3. shown' \in [Tab -> Snapshot \union {NoSnapshot}]
    <3>1. \/ shown' = shown
          \/ /\ IsSnapshot(p)
             /\ shown' = [shown EXCEPT ![t] =
                  IF isNewerSnapshot(shown[t], next) THEN next ELSE shown[t]]
      BY <1>8 DEF Hear
    <3>2. shown \in [Tab -> Snapshot \union {NoSnapshot}]
      BY DEF TypeOK
    <3> HIDE DEF next, p
    <3>3. QED
      BY <2>2, <3>1, <3>2
  <2>4. down' \in [Socket -> Seq(Packet)]
    BY <1>8, <2>1 DEF Hear, TypeOK
  <2>5. waiting' \in [Tab -> SUBSET (1..MaxRequests)] /\ status' \in [Tab -> Status]
    <3>1. waiting \in [Tab -> SUBSET (1..MaxRequests)] /\ status \in [Tab -> Status]
      BY DEF TypeOK
    <3>2. waiting' \in {waiting, [waiting EXCEPT ![t] = waiting[t] \ {p.request}]}
      BY <1>8 DEF Hear
    <3>3. status' \in {status, [status EXCEPT ![t] = "joined"], [status EXCEPT ![t] = "error"]}
      BY <1>8 DEF Hear
    <3>4. QED
      BY <3>1, <3>2, <3>3 DEF Status
  <2>6. strayed' \in [Tab -> BOOLEAN]
    <3>1. strayed' \in {strayed, [strayed EXCEPT ![t] = strayed[t] \/ p.auction # open[t]]}
      BY <1>8 DEF Hear
    <3>2. (strayed[t] \/ p.auction # open[t]) \in BOOLEAN /\ strayed \in [Tab -> BOOLEAN]
      BY DEF TypeOK
    <3> HIDE DEF p
    <3>3. QED
      BY <3>1, <3>2, Update
  <2>7. QED
    BY <1>8, <2>3, <2>4, <2>5, <2>6 DEF Hear, TypeOK, serverVars
<1>9. QED
  BY <1>1, <1>2, <1>3, <1>4, <1>5, <1>6, <1>7, <1>8 DEF Client

LEMMA ServerType ==
  ASSUME TypeOK, Versions, Server
  PROVE  TypeOK'
<1>1. ASSUME NEW s \in online, Receive(s)
      PROVE  TypeOK'
  <2> DEFINE p == Head(up[s])
  <2>1. s \in Socket /\ p \in Request /\ Tail(up[s]) \in Seq(Request)
    BY <1>1, TakenType DEF Receive
  <2>2. up' \in [Socket -> Seq(Request)]
    BY <1>1, <2>1 DEF Receive, TypeOK
  <2>3. p.auction \in Auction /\ p.request \in 0..MaxRequests
    BY <2>1 DEF Request
  <2>4. room' \in [Auction -> SUBSET Socket] /\ auctionSockets' \in [Auction -> SUBSET Socket]
        /\ socketAuctions' \in [Socket -> SUBSET Auction]
    <3>1. CASE handleJoin(s, p)
      BY <3>1, <2>1, <2>3 DEF handleJoin, join, TypeOK
    <3>2. CASE handleResync(s, p)
      BY <3>2 DEF handleResync, TypeOK, presenceVars
    <3>3. CASE handleLeave(s, p)
      BY <3>3, <2>1, <2>3 DEF handleLeave, leave, TypeOK
    <3>4. QED
      BY <1>1, <3>1, <3>2, <3>3 DEF Receive, Handle
  <2>5. \A h \in {"join", "resync"} : Started(h, s, p) => work' \subseteq Work
    BY <2>1, <2>3 DEF Started, Work, TypeOK
  <2>6. work' \subseteq Work
    BY <1>1, <2>5 DEF Receive, Handle, handleJoin, handleResync, handleLeave, TypeOK
  <2>7. QED
    BY <1>1, <2>2, <2>4, <2>6 DEF Receive, TypeOK, clientVars, pageVars
<1>2. ASSUME NEW s \in online, handleDisconnect(s)
      PROVE  TypeOK'
  BY <1>2 DEF handleDisconnect, leaveAll, TypeOK, clientVars, pageVars
<1>3. ASSUME NEW a \in Auction, NEW s \in online \union {NoSocket}, Change(a, s)
      PROVE  TypeOK'
  <2>1. PICK v \in {version[a], version[a] + 1} :
          /\ version' = [version EXCEPT ![a] = v]
          /\ work' = work \union {[handler |-> "change", socket |-> s, auction |-> a,
                                   version |-> v, request |-> 0]}
    BY <1>3 DEF Change
  <2>2. v \in Version
    BY <1>3 DEF Change, TypeOK, Version, Versions
  <2>3. version' \in [Auction -> Version] /\ work' \subseteq Work
    BY <2>1, <2>2 DEF TypeOK, Work
  <2>4. QED
    BY <1>3, <2>3 DEF Change, TypeOK, clientVars, pageVars, presenceVars
<1>4. ASSUME NEW a \in Auction, broadcastPaymentState(a)
      PROVE  TypeOK'
  BY <1>4 DEF broadcastPaymentState, TypeOK, Work, clientVars, pageVars, presenceVars
<1>5. ASSUME NEW w \in work, LoadAuction(w)
      PROVE  TypeOK'
  <2>1. [w EXCEPT !.version = version[w.auction]] \in Work
    <3>1. w \in Work /\ version \in [Auction -> Version]
      BY DEF TypeOK
    <3>2. version[w.auction] \in Version
      BY <3>1 DEF Work
    <3>3. QED
      BY <3>1, <3>2 DEF Work
  <2>2. QED
    BY <1>5, <2>1 DEF LoadAuction, TypeOK, clientVars, pageVars, presenceVars
<1>6. ASSUME NEW w \in work, Respond(w)
      PROVE  TypeOK'
  <2>1. [event |-> "snapshot", auction |-> w.auction, version |-> w.version,
         request |-> w.request] \in Packet
    BY <1>6 DEF Respond, TypeOK, Work, Packet
  <2>2. down' \in [Socket -> Seq(Packet)]
    BY <1>6, <2>1, SendType DEF Respond
  <2>3. announced' \in [Auction -> Version] /\ work' \subseteq Work
    BY <1>6 DEF Respond, TypeOK, Work
  <2>4. QED
    BY <1>6, <2>2, <2>3 DEF Respond, TypeOK, clientVars, pageVars, presenceVars
<1>7. ASSUME NEW w \in work, handleError(w)
      PROVE  TypeOK'
  <2>1. [event |-> "error", auction |-> w.auction, version |-> NotRead,
         request |-> w.request] \in Packet
    BY DEF TypeOK, Work, Packet
  <2>2. down' \in [Socket -> Seq(Packet)]
    BY <1>7, <2>1, SendType DEF handleError
  <2>3. QED
    BY <1>7, <2>2 DEF handleError, TypeOK, clientVars, pageVars, presenceVars
<1>8. QED
  BY <1>1, <1>2, <1>3, <1>4, <1>5, <1>6, <1>7 DEF Server

LEMMA TypeStep == TypeOK /\ Versions /\ [Next]_vars => TypeOK'
<1>1. TypeOK /\ UNCHANGED vars => TypeOK'
  BY DEF TypeOK, vars, serverVars, clientVars, pageVars
<1>2. QED
  BY <1>1, ClientType, ServerType DEF Next

-----------------------------------------------------------------------------
(* Versions, connections and presence. *)

LEMMA VersionsStep == TypeOK /\ Versions /\ [Next]_vars => Versions'
<1> SUFFICES ASSUME TypeOK, Versions, [Next]_vars PROVE Versions'
  OBVIOUS
<1>1. CASE UNCHANGED <<version, announced, calls>> /\ work' \subseteq work
  BY <1>1 DEF Versions
<1>2. ASSUME NEW t \in Tab, Client(t)
      PROVE  UNCHANGED <<version, announced, calls, work>>
  BY <1>2 DEF Client, OpenPage, ClosePage, resync, Connect, Drop, ChangeToken, AckTimeout, Hear,
     serverVars
<1>3. ASSUME NEW s \in online, Receive(s)
      PROVE  Versions'
  <2> DEFINE p == Head(up[s])
  <2>1. p.auction \in Auction
    BY <1>3, TakenType DEF Receive
  <2>2. work' = work \/ \E h \in {"join", "resync"} : Started(h, s, p)
    BY <1>3 DEF Receive, Handle, handleJoin, handleResync, handleLeave
  <2>3. \A w \in work' : w \in work \/ (w.version = NotRead /\ w.auction \in Auction)
    BY <2>1, <2>2 DEF Started
  <2>4. UNCHANGED <<version, announced, calls>> /\ version \in [Auction -> Nat]
    BY <1>3 DEF Receive, TypeOK, Version
  <2>5. QED
    BY <2>3, <2>4 DEF Versions, NotRead
<1>4. ASSUME NEW s \in online, handleDisconnect(s)
      PROVE  UNCHANGED <<version, announced, calls, work>>
  BY <1>4 DEF handleDisconnect
<1>5. ASSUME NEW a \in Auction, NEW s \in online \union {NoSocket}, Change(a, s)
      PROVE  Versions'
  <2>1. PICK v \in {version[a], version[a] + 1} :
          /\ version' = [version EXCEPT ![a] = v]
          /\ work' = work \union {[handler |-> "change", socket |-> s, auction |-> a,
                                   version |-> v, request |-> 0]}
    BY <1>5 DEF Change
  <2>2. \A b \in Auction : version[b] \in Nat /\ announced[b] \in Nat
    BY DEF TypeOK, Version
  <2>3. \A b \in Auction : version[b] <= version'[b] /\ version'[b] <= version[b] + 1
    BY <2>1, <2>2 DEF TypeOK
  <2>4. announced' = announced /\ calls' = calls + 1 /\ calls \in Nat
    BY <1>5 DEF Change, TypeOK
  <2>5. \A b \in Auction : announced'[b] <= version'[b] /\ version'[b] <= calls'
    <3>1. SUFFICES ASSUME NEW b \in Auction
                   PROVE  announced[b] <= version'[b] /\ version'[b] <= calls + 1
      BY <2>4
    <3>2. announced[b] <= version[b] /\ version[b] <= calls
      BY DEF Versions
    <3>3. version'[b] \in Nat
      BY <2>1, <2>2 DEF TypeOK
    <3>4. QED
      BY <2>2, <2>3, <2>4, <3>2, <3>3
  <2>6. version'[a] = v
    BY <2>1 DEF TypeOK
  <2>7. \A w \in work : w.version <= version'[w.auction]
    <3>1. SUFFICES ASSUME NEW w \in work
                   PROVE  w.version <= version'[w.auction]
      OBVIOUS
    <3>2. w.auction \in Auction /\ w.version \in Int
      BY DEF TypeOK, Work, Version, NotRead
    <3>3. version'[w.auction] \in Nat
      BY <2>1, <2>2, <3>2 DEF TypeOK
    <3>4. QED
      BY <2>2, <2>3, <3>2, <3>3 DEF Versions
  <2>8. QED
    BY <2>1, <2>2, <2>5, <2>6, <2>7 DEF Versions
<1>6. ASSUME NEW a \in Auction, broadcastPaymentState(a)
      PROVE  Versions'
  <2>1. \A b \in Auction : version[b] \in Nat
    BY DEF TypeOK, Version
  <2>2. QED
    BY <1>6, <2>1 DEF broadcastPaymentState, Versions, TypeOK, NotRead
<1>7. ASSUME NEW w \in work, LoadAuction(w)
      PROVE  Versions'
  <2> DEFINE x == [w EXCEPT !.version = version[w.auction]]
  <2>1. x.auction = w.auction /\ x.version = version[w.auction] /\ version[w.auction] \in Nat
    BY DEF TypeOK, Work, Version
  <2>2. work' = (work \ {w}) \union {x} /\ UNCHANGED <<version, announced, calls>>
    BY <1>7 DEF LoadAuction
  <2> HIDE DEF x
  <2>3. QED
    BY <2>1, <2>2 DEF Versions
<1>8. ASSUME NEW w \in work, Respond(w)
      PROVE  Versions'
  <2>1. w.auction \in Auction /\ w.version <= version[w.auction]
    BY DEF Versions, TypeOK, Work
  <2>2. announced' \in {announced, [announced EXCEPT ![w.auction] = w.version]}
    BY <1>8 DEF Respond
  <2>3. \A a \in Auction : announced'[a] <= version[a]
    BY <2>1, <2>2 DEF Versions, TypeOK
  <2>4. QED
    BY <1>8, <2>3 DEF Respond, Versions
<1>9. ASSUME NEW w \in work, handleError(w)
      PROVE  UNCHANGED <<version, announced, calls>> /\ work' \subseteq work
  BY <1>9 DEF handleError
<1>10. UNCHANGED vars => UNCHANGED <<version, announced, calls, work>>
  BY DEF vars, serverVars
<1>11. QED
  BY <1>1, <1>2, <1>3, <1>4, <1>5, <1>6, <1>7, <1>8, <1>9, <1>10 DEF Next, Server

LEMMA ConnectionsStep == TypeOK /\ Connections /\ [Next]_vars => Connections'
<1> SUFFICES ASSUME TypeOK, Connections, [Next]_vars PROVE Connections'
  OBVIOUS
<1>1. CASE UNCHANGED connection /\ online' \subseteq online
           /\ (live' = live \/ \E t \in Tab : live' = [live EXCEPT ![t] = 0])
  <2>1. \A t \in Tab : live[t] \in Nat /\ connection[t] \in Nat
    BY DEF TypeOK
  <2>2. \A t \in Tab : live'[t] \in {0, live[t]}
    BY <1>1 DEF TypeOK
  <2>3. QED
    BY <1>1, <2>1, <2>2 DEF Connections
<1>2. ASSUME NEW t \in Tab, Connect(t)
      PROVE  Connections'
  <2> DEFINE s == <<t, connection[t] + 1>>
  <2>1. connection[t] \in Nat /\ \A u \in Tab : connection[u] \in Nat
    BY DEF TypeOK
  <2>2. connection'[t] = connection[t] + 1 /\ \A u \in Tab : connection[u] <= connection'[u]
    BY <1>2, <2>1 DEF Connect, TypeOK
  <2>3. \A u \in Tab : live'[u] <= connection'[u]
    BY <1>2, <2>1, <2>2 DEF Connect, TypeOK, Connections
  <2>4. \A x \in online : x[1] \in Tab /\ x[2] \in Nat
    BY DEF TypeOK, Socket
  <2>5. \A x \in online' : x[2] <= connection'[x[1]]
    BY <1>2, <2>1, <2>2, <2>4 DEF Connect, Connections
  <2>6. QED
    BY <2>3, <2>5 DEF Connections
<1>3. ASSUME NEW t \in Tab, Client(t), ~Connect(t)
      PROVE  UNCHANGED <<connection, online>>
             /\ (live' = live \/ live' = [live EXCEPT ![t] = 0])
  BY <1>3 DEF Client, OpenPage, ClosePage, resync, Drop, ChangeToken, AckTimeout, Hear, serverVars
<1>4. ASSUME Server
      PROVE  UNCHANGED <<connection, live>> /\ online' \subseteq online
  BY <1>4 DEF Server, Receive, handleDisconnect, Change, broadcastPaymentState, LoadAuction, Respond,
     handleError, clientVars
<1>5. UNCHANGED vars => UNCHANGED <<connection, live, online>>
  BY DEF vars, serverVars, clientVars
<1>6. QED
  BY <1>1, <1>2, <1>3, <1>4, <1>5 DEF Next

LEMMA PresenceStep == TypeOK /\ PresenceIsRoom /\ [Next]_vars => PresenceIsRoom'
<1> SUFFICES ASSUME TypeOK, PresenceIsRoom, [Next]_vars PROVE PresenceIsRoom'
  OBVIOUS
<1>1. CASE UNCHANGED presenceVars /\ online \subseteq online'
  BY <1>1 DEF PresenceIsRoom, presenceVars
<1>2. ASSUME NEW t \in Tab, Client(t)
      PROVE  UNCHANGED presenceVars /\ online \subseteq online'
  BY <1>2 DEF Client, OpenPage, ClosePage, resync, Connect, Drop, ChangeToken, AckTimeout, Hear,
     serverVars, presenceVars
<1>3. ASSUME NEW s \in online, Receive(s)
      PROVE  PresenceIsRoom'
  <2> DEFINE p == Head(up[s])
  <2>1. s \in Socket /\ p.auction \in Auction
    BY <1>3, TakenType DEF Receive
  <2>2. CASE handleJoin(s, p)
    BY <1>3, <2>1, <2>2 DEF Receive, handleJoin, join, PresenceIsRoom, TypeOK
  <2>3. CASE handleResync(s, p)
    BY <1>1, <1>3, <2>3 DEF Receive, handleResync
  <2>4. CASE handleLeave(s, p)
    BY <1>3, <2>1, <2>4 DEF Receive, handleLeave, leave, PresenceIsRoom, TypeOK
  <2>5. QED
    BY <1>3, <2>2, <2>3, <2>4 DEF Receive, Handle
<1>4. ASSUME NEW s \in online, handleDisconnect(s)
      PROVE  PresenceIsRoom'
  <2>1. s \in Socket /\ \A a \in Auction : a \in socketAuctions[s] <=> s \in room[a]
    BY DEF PresenceIsRoom, TypeOK
  <2>2. \A a \in Auction : auctionSockets'[a] = room'[a] /\ room'[a] = room[a] \ {s}
    BY <1>4, <2>1 DEF handleDisconnect, leaveAll, PresenceIsRoom
  <2>3. auctionSockets' = room'
    BY <1>4, <2>2 DEF handleDisconnect, leaveAll
  <2>4. \A a \in Auction : room'[a] \subseteq online'
    BY <1>4, <2>2 DEF handleDisconnect, PresenceIsRoom
  <2>5. \A x \in Socket : socketAuctions'[x] = {a \in Auction : x \in auctionSockets'[a]}
    BY <1>4, <2>1, <2>2 DEF handleDisconnect, leaveAll, PresenceIsRoom, TypeOK
  <2>6. QED
    BY <2>3, <2>4, <2>5 DEF PresenceIsRoom
<1>5. ASSUME Server,
             \A s \in online : ~Receive(s) /\ ~handleDisconnect(s)
      PROVE  UNCHANGED presenceVars /\ online \subseteq online'
  BY <1>5 DEF Server, Change, broadcastPaymentState, LoadAuction, Respond, handleError
<1>6. UNCHANGED vars => UNCHANGED <<presenceVars, online>>
  BY DEF vars, serverVars, presenceVars
<1>7. QED
  BY <1>1, <1>2, <1>3, <1>4, <1>5, <1>6 DEF Next

-----------------------------------------------------------------------------
(* Packets to the server. *)

LEMMA AppendJoin ==
  ASSUME NEW q \in Seq(Request), NEW p \in Request, p.event = "join"
  PROVE  JoinLast(q \o <<p>>, p.auction)
<1> DEFINE r == q \o <<p>>
           n == Len(q) + 1
<1>1. n \in DOMAIN r /\ r[n] = p /\ DOMAIN r = 1..n
  OBVIOUS
<1> HIDE DEF r
<1>2. ~LeaveAfter(r, p.auction, n)
  BY <1>1 DEF LeaveAfter
<1>3. QED
  BY <1>1, <1>2 DEF JoinLast, r

LEMMA AppendResync ==
  ASSUME NEW q \in Seq(Request), NEW p \in Request, p.event # "leave", NEW a
  PROVE  /\ JoinLast(q, a) => JoinLast(q \o <<p>>, a)
         /\ LeaveAfter(q \o <<p>>, a, 0) => LeaveAfter(q, a, 0)
<1> DEFINE r == q \o <<p>>
<1>1. /\ DOMAIN q = 1..Len(q) /\ Len(q) \in Nat /\ DOMAIN r = 1..(Len(q) + 1)
      /\ r[Len(q) + 1] = p /\ \A i \in DOMAIN q : r[i] = q[i]
  OBVIOUS
<1> HIDE DEF r
<1>2. ASSUME NEW i \in Nat, LeaveAfter(r, a, i)
      PROVE  LeaveAfter(q, a, i)
  BY <1>1, <1>2 DEF LeaveAfter
<1>3. JoinLast(q, a) => JoinLast(r, a)
  BY <1>1, <1>2 DEF JoinLast
<1>4. QED
  BY <1>2, <1>3 DEF r

\* The first packet is taken: what was to come is done or still to come.
LEMMA TakeFirst ==
  ASSUME NEW q \in Seq(Request), q # <<>>, NEW a
  PROVE  /\ JoinLast(q, a) =>
              \/ JoinLast(Tail(q), a)
              \/ /\ Head(q).event = "join" /\ Head(q).auction = a
                 /\ ~LeaveAfter(Tail(q), a, 0)
         /\ LeaveAfter(Tail(q), a, 0) => LeaveAfter(q, a, 0)
         /\ Head(q).event = "leave" /\ Head(q).auction = a => LeaveAfter(q, a, 0)
<1> DEFINE r == Tail(q)
<1>1. /\ DOMAIN q = 1..Len(q) /\ Len(q) \in Nat \ {0} /\ Head(q) = q[1]
      /\ DOMAIN r = 1..(Len(q) - 1) /\ \A i \in DOMAIN r : r[i] = q[i + 1]
  OBVIOUS
<1> HIDE DEF r
<1>2. ASSUME NEW i \in Nat, LeaveAfter(r, a, i)
      PROVE  LeaveAfter(q, a, i + 1)
  <2>1. PICK j \in DOMAIN r : j > i /\ r[j].event = "leave" /\ r[j].auction = a
    BY <1>2 DEF LeaveAfter
  <2>2. j + 1 \in DOMAIN q /\ j + 1 > i + 1 /\ q[j + 1] = r[j]
    BY <1>1, <2>1
  <2>3. QED
    BY <2>1, <2>2 DEF LeaveAfter
<1>3. LeaveAfter(r, a, 0) => LeaveAfter(q, a, 0)
  <2>1. LeaveAfter(q, a, 1) => LeaveAfter(q, a, 0)
    BY <1>1 DEF LeaveAfter
  <2>2. QED
    BY <1>2, <2>1
<1>4. ASSUME JoinLast(q, a)
      PROVE  JoinLast(r, a) \/ (q[1].event = "join" /\ q[1].auction = a /\ ~LeaveAfter(r, a, 0))
  <2>1. PICK i \in DOMAIN q : q[i].event = "join" /\ q[i].auction = a /\ ~LeaveAfter(q, a, i)
    BY <1>4 DEF JoinLast
  <2>2. CASE i = 1
    BY <1>2, <2>1, <2>2
  <2>3. CASE i # 1
    <3>1. i - 1 \in DOMAIN r /\ r[i - 1] = q[i] /\ i - 1 \in Nat /\ (i - 1) + 1 = i
      BY <1>1, <2>3
    <3>2. ~LeaveAfter(r, a, i - 1)
      BY <1>2, <2>1, <3>1
    <3>3. QED
      BY <2>1, <3>1, <3>2 DEF JoinLast
  <2>4. QED
    BY <2>2, <2>3
<1>5. q[1].event = "leave" /\ q[1].auction = a => LeaveAfter(q, a, 0)
  BY <1>1 DEF LeaveAfter
<1>6. QED
  BY <1>1, <1>3, <1>4, <1>5 DEF r

-----------------------------------------------------------------------------
(* What a step of the system leaves alone. *)

\* Another tab moves.
LEMMA OtherTab ==
  ASSUME TypeOK, NEW t \in Tab, NEW u \in Tab, t # u, Client(u), Watching(t)'
  PROVE  /\ Watching(t) /\ SocketOf(t)' = SocketOf(t) /\ open'[t] = open[t]
         /\ up'[SocketOf(t)] = up[SocketOf(t)]
         /\ shown'[t] = shown[t] /\ down'[SocketOf(t)] = down[SocketOf(t)]
         /\ UNCHANGED <<room, work, announced, faults>>
<1>1. live'[t] = live[t] /\ open'[t] = open[t] /\ shown'[t] = shown[t]
  BY DEF Client, OpenPage, ClosePage, resync, Connect, Drop, ChangeToken, AckTimeout, Hear, TypeOK
<1>2. SocketOf(t)' = SocketOf(t) /\ SocketOf(t) # SocketOf(u)
      /\ \A n \in Nat : SocketOf(t) # <<u, n>>
  BY <1>1 DEF SocketOf
<1>3. SocketOf(t) \in Socket
  BY <1>1, SocketType DEF Watching
<1>4. /\ up'[SocketOf(t)] = up[SocketOf(t)] /\ down'[SocketOf(t)] = down[SocketOf(t)]
      /\ (SocketOf(t) \in online' => SocketOf(t) \in online)
  <2>1. \A packets : Emit(u, packets) => up'[SocketOf(t)] = up[SocketOf(t)]
    BY <1>2, <1>3 DEF Emit, TypeOK
  <2>2. CASE \E a \in Auction : OpenPage(u, a)
    BY <2>1, <2>2 DEF OpenPage, serverVars
  <2>3. CASE ClosePage(u) \/ resync(u)
    BY <2>1, <2>3 DEF ClosePage, resync, serverVars
  <2>4. CASE Connect(u)
    <3>1. <<u, connection[u] + 1>> # SocketOf(t)
      BY <1>2 DEF TypeOK
    <3>2. QED
      BY <2>4, <3>1, <1>3 DEF Connect, TypeOK
  <2>5. CASE Drop(u) \/ ChangeToken(u) \/ Hear(u) \/ \E r \in 1..MaxRequests : AckTimeout(u, r)
    BY <2>5, <1>2, <1>3 DEF Drop, ChangeToken, Hear, AckTimeout, serverVars, TypeOK
  <2>6. QED
    BY <2>2, <2>3, <2>4, <2>5 DEF Client
<1>5. UNCHANGED <<room, work, announced, faults>>
  BY DEF Client, OpenPage, ClosePage, resync, Connect, Drop, ChangeToken, AckTimeout, Hear,
     serverVars, presenceVars
<1>6. QED
  BY <1>1, <1>2, <1>4, <1>5 DEF Watching

\* The tab itself moves, and still watches: it opens or rejoins, asks, or hears.
LEMMA OwnTab ==
  ASSUME TypeOK, NEW t \in Tab, Client(t), Watching(t)'
  PROVE  \/ Joining(t)'
         \/ /\ Watching(t) /\ SocketOf(t)' = SocketOf(t) /\ open'[t] = open[t]
            /\ \/ up'[SocketOf(t)] = up[SocketOf(t)]
               \/ \E p \in Request : /\ p.event # "leave"
                                    /\ up'[SocketOf(t)] = up[SocketOf(t)] \o <<p>>
            /\ Hear(t) \/ (shown'[t] = shown[t] /\ down'[SocketOf(t)] = down[SocketOf(t)])
            /\ UNCHANGED <<room, work, announced, faults>>
<1>1. ASSUME NEW a \in Auction, OpenPage(t, a)
      PROVE  Joining(t)'
  <2> DEFINE p == Ask(t, "join", a)
  <2>1. live[t] # 0 /\ live' = live /\ open'[t] = a /\ SocketOf(t)' = SocketOf(t)
    BY <1>1 DEF OpenPage, Watching, SocketOf, TypeOK
  <2>2. p \in Request /\ p.event = "join" /\ p.auction = a
    BY <1>1 DEF OpenPage, Count, Ask, Request, TypeOK
  <2>3. SocketOf(t) \in Socket /\ up[SocketOf(t)] \in Seq(Request)
    BY <2>1, SocketType DEF TypeOK
  <2>4. up'[SocketOf(t)] = up[SocketOf(t)] \o <<p>>
    BY <1>1, <2>1, <2>3 DEF OpenPage, Emit, TypeOK
  <2> HIDE DEF p
  <2>5. QED
    BY <2>1, <2>2, <2>3, <2>4, AppendJoin DEF Joining
<1>2. ~ClosePage(t) /\ ~Drop(t) /\ ~ChangeToken(t)
  BY DEF Watching, ClosePage, Drop, ChangeToken, TypeOK
<1>3. ASSUME resync(t)
      PROVE  \E p \in Request : p.event # "leave" /\ up'[SocketOf(t)] = up[SocketOf(t)] \o <<p>>
  <2> DEFINE p == Ask(t, "resync", open[t])
  <2>1. live[t] # 0
    BY <1>3 DEF resync, Watching
  <2>2. p \in Request /\ p.event # "leave"
    BY <1>3 DEF resync, Count, Ask, Request, TypeOK
  <2>3. SocketOf(t) \in Socket
    BY <2>1, SocketType
  <2>4. up'[SocketOf(t)] = up[SocketOf(t)] \o <<p>>
    BY <1>3, <2>1, <2>3 DEF resync, Emit, TypeOK
  <2>5. QED
    BY <2>2, <2>4
<1>4. ASSUME Connect(t)
      PROVE  Joining(t)'
  <2> DEFINE p == Ask(t, "join", open[t])
             s == <<t, connection[t] + 1>>
  <2>1. open' = open /\ open[t] # NoAuction /\ open[t] \in Auction
    BY <1>4 DEF Connect, Watching, TypeOK
  <2>2. p \in Request /\ p.event = "join" /\ p.auction = open[t]
    BY <1>4, <2>1 DEF Connect, Count, Ask, Request, TypeOK
  <2>3. s \in Socket /\ buffer[t] \in Seq(Request) /\ SocketOf(t)' = s
    BY <1>4 DEF Connect, Socket, SocketOf, TypeOK
  <2>4. up'[s] = buffer[t] \o <<p>>
    BY <1>4, <2>1, <2>3 DEF Connect, JoinOnConnect, TypeOK
  <2> HIDE DEF p, s
  <2>5. QED
    BY <2>1, <2>2, <2>3, <2>4, AppendJoin DEF Joining
<1>5. ASSUME resync(t) \/ Hear(t) \/ \E r \in 1..MaxRequests : AckTimeout(t, r)
      PROVE  /\ live' = live /\ online' = online /\ open' = open
             /\ Hear(t) \/ (shown' = shown /\ down' = down)
             /\ resync(t) \/ up' = up
             /\ UNCHANGED <<room, work, announced, faults>>
  BY <1>5 DEF resync, Hear, AckTimeout, serverVars, presenceVars
<1>6. ASSUME resync(t) \/ Hear(t) \/ \E r \in 1..MaxRequests : AckTimeout(t, r)
      PROVE  Watching(t) /\ SocketOf(t)' = SocketOf(t)
  BY <1>5, <1>6 DEF Watching, SocketOf
<1>7. QED
  BY <1>1, <1>2, <1>3, <1>4, <1>5, <1>6 DEF Client

\* The server moves, and the tab still watches.
LEMMA ServerWatching ==
  ASSUME TypeOK, NEW t \in Tab, Server, Watching(t)'
  PROVE  /\ Watching(t) /\ UNCHANGED <<live, open, shown>> /\ SocketOf(t)' = SocketOf(t)
         /\ SocketOf(t) \in Socket
         /\ \/ Receive(SocketOf(t))
            \/ /\ up'[SocketOf(t)] = up[SocketOf(t)]
               /\ \A a \in Auction : SocketOf(t) \in room[a] => SocketOf(t) \in room'[a]
<1>1. UNCHANGED <<live, open, shown>> /\ online' \subseteq online
  BY DEF Server, Receive, handleDisconnect, Change, broadcastPaymentState, LoadAuction, Respond,
     handleError, clientVars, pageVars
<1>2. Watching(t) /\ SocketOf(t)' = SocketOf(t) /\ SocketOf(t) \in Socket
  BY <1>1, SocketType DEF Watching, SocketOf
<1>3. ASSUME NEW s \in online, Receive(s), s # SocketOf(t)
      PROVE  /\ up'[SocketOf(t)] = up[SocketOf(t)]
             /\ \A a \in Auction : SocketOf(t) \in room[a] => SocketOf(t) \in room'[a]
  <2>1. up'[SocketOf(t)] = up[SocketOf(t)]
    BY <1>2, <1>3 DEF Receive, TypeOK
  <2>2. room' \in {room, [room EXCEPT ![Head(up[s]).auction] = @ \union {s}],
                   [room EXCEPT ![Head(up[s]).auction] = @ \ {s}]}
    BY <1>3 DEF Receive, Handle, handleJoin, handleResync, handleLeave, presenceVars
  <2>3. \A a \in Auction : SocketOf(t) \in room[a] => SocketOf(t) \in room'[a]
    BY <1>3, <2>2 DEF TypeOK
  <2>4. QED
    BY <2>1, <2>3
<1>4. ASSUME NEW s \in online, handleDisconnect(s)
      PROVE  /\ up'[SocketOf(t)] = up[SocketOf(t)]
             /\ \A a \in Auction : SocketOf(t) \in room[a] => SocketOf(t) \in room'[a]
  <2>1. s # SocketOf(t)
    BY <1>2, <1>4 DEF handleDisconnect, Watching
  <2>2. QED
    BY <1>2, <1>4, <2>1 DEF handleDisconnect, TypeOK
<1>5. ASSUME \A s \in online : ~Receive(s) /\ ~handleDisconnect(s)
      PROVE  UNCHANGED <<up, room>>
  BY <1>5 DEF Server, Change, broadcastPaymentState, LoadAuction, Respond, handleError,
     presenceVars
<1>6. QED
  BY <1>1, <1>2, <1>3, <1>4, <1>5

-----------------------------------------------------------------------------
(* Rooms. *)

\* The server takes a packet of a watching tab.
LEMMA ReceiveRoom ==
  ASSUME TypeOK, NEW t \in Tab, Watching(t), Receive(SocketOf(t)), SocketOf(t)' = SocketOf(t),
         open' = open, Joining(t) \/ Inside(t)
  PROVE  (Joining(t) \/ Inside(t))'
<1> DEFINE s == SocketOf(t)
           a == open[t]
           q == up[s]
<1>1. s \in online /\ q # <<>> /\ q \in Seq(Request) /\ a \in Auction /\ s \in Socket
  BY TakenType DEF Receive, Watching, TypeOK
<1>2. up'[s] = Tail(q) /\ Handle(s, Head(q)) /\ Head(q).auction \in Auction
  BY <1>1, TakenType DEF Receive, TypeOK
<1> HIDE DEF s, a, q
<1>3. CASE JoinLast(Tail(q), a)
  BY <1>2, <1>3 DEF Joining, s, a, q
<1>4. CASE Head(q).event = "join" /\ Head(q).auction = a /\ ~LeaveAfter(Tail(q), a, 0)
  <2>1. handleJoin(s, Head(q))
    BY <1>2, <1>4 DEF Handle
  <2>2. s \in room'[a]
    BY <2>1, <1>1, <1>4 DEF handleJoin, TypeOK
  <2>3. QED
    BY <1>2, <1>4, <2>2 DEF Inside, s, a, q
<1>5. CASE Inside(t)
  <2>1. s \in room[a] /\ ~LeaveAfter(q, a, 0)
    BY <1>5 DEF Inside, s, a, q
  <2>2. ~LeaveAfter(Tail(q), a, 0) /\ ~(Head(q).event = "leave" /\ Head(q).auction = a)
    BY <1>1, <2>1, TakeFirst
  <2>3. s \in room'[a]
    BY <1>1, <1>2, <2>1, <2>2
       DEF Handle, handleJoin, handleResync, handleLeave, presenceVars, TypeOK
  <2>4. QED
    BY <1>2, <2>2, <2>3 DEF Inside, s, a, q
<1>6. QED
  <2>1. JoinLast(q, a) \/ Inside(t)
    BY DEF Joining, s, a, q
  <2>2. QED
    BY <1>1, <1>3, <1>4, <1>5, <2>1, TakeFirst

LEMMA RoomStep == TypeOK /\ RoomKept /\ [Next]_vars => RoomKept'
<1> SUFFICES ASSUME TypeOK, RoomKept, [Next]_vars, NEW t \in Tab, Watching(t)'
             PROVE  (Joining(t) \/ Inside(t))'
  BY DEF RoomKept
<1>1. ASSUME NEW u \in Tab, u # t, Client(u)
      PROVE  (Joining(t) \/ Inside(t))'
  <2>1. Joining(t) \/ Inside(t)
    BY <1>1, OtherTab DEF RoomKept
  <2>2. QED
    BY <1>1, <2>1, OtherTab DEF Joining, Inside
<1>2. ASSUME Client(t)
      PROVE  (Joining(t) \/ Inside(t))'
  <2>1. CASE Joining(t)'
    BY <2>1
  <2>2. CASE ~Joining(t)'
    <3>1. /\ Watching(t) /\ SocketOf(t)' = SocketOf(t) /\ open'[t] = open[t] /\ room' = room
          /\ \/ up'[SocketOf(t)] = up[SocketOf(t)]
             \/ \E p \in Request : /\ p.event # "leave"
                                   /\ up'[SocketOf(t)] = up[SocketOf(t)] \o <<p>>
      BY <1>2, <2>2, OwnTab
    <3>2. up[SocketOf(t)] \in Seq(Request) /\ (Joining(t) \/ Inside(t))
      BY <3>1, SocketType DEF RoomKept, Watching, TypeOK
    <3>3. CASE up'[SocketOf(t)] = up[SocketOf(t)]
      BY <3>1, <3>2, <3>3 DEF Joining, Inside
    <3>4. ASSUME NEW p \in Request, p.event # "leave",
                 up'[SocketOf(t)] = up[SocketOf(t)] \o <<p>>
          PROVE  (Joining(t) \/ Inside(t))'
      <4>1. /\ JoinLast(up[SocketOf(t)], open[t]) => JoinLast(up'[SocketOf(t)], open[t])
            /\ LeaveAfter(up'[SocketOf(t)], open[t], 0) => LeaveAfter(up[SocketOf(t)], open[t], 0)
        BY <3>2, <3>4, AppendResync
      <4>2. QED
        BY <3>1, <3>2, <4>1 DEF Joining, Inside
    <3>5. QED
      BY <3>1, <3>3, <3>4
  <2>3. QED
    BY <2>1, <2>2
<1>3. ASSUME Server
      PROVE  (Joining(t) \/ Inside(t))'
  <2>1. /\ Watching(t) /\ open' = open /\ SocketOf(t)' = SocketOf(t) /\ open[t] \in Auction
        /\ Joining(t) \/ Inside(t)
    BY <1>3, ServerWatching DEF RoomKept, Watching, TypeOK
  <2>2. CASE Receive(SocketOf(t))
    BY <2>1, <2>2, ReceiveRoom
  <2>3. CASE /\ up'[SocketOf(t)] = up[SocketOf(t)]
             /\ \A a \in Auction : SocketOf(t) \in room[a] => SocketOf(t) \in room'[a]
    BY <2>1, <2>3 DEF Joining, Inside
  <2>4. QED
    BY <1>3, <2>2, <2>3, ServerWatching
<1>4. CASE UNCHANGED vars
  BY <1>4 DEF vars, serverVars, clientVars, pageVars, presenceVars, RoomKept, Watching, Joining,
     Inside, SocketOf
<1>5. QED
  BY <1>1, <1>2, <1>3, <1>4 DEF Next

-----------------------------------------------------------------------------
(* News. *)

LEMMA VersionOf ==
  /\ \A x \in Snapshot \union {NoSnapshot} : x.version \in Int
  /\ \A p \in Packet : p.version \in Int /\ p.version >= -1
BY DEF Snapshot, NoSnapshot, Packet, Version, NotRead

\* The page hears: what it knew it still knows.
LEMMA HearKnows ==
  ASSUME TypeOK, NEW t \in Tab, Watching(t), Hear(t), NEW v \in Version, Knows(t, v)
  PROVE  Knows(t, v)'
<1> DEFINE s == SocketOf(t)
           q == down[s]
           p == Head(q)
<1>1. /\ q \in Seq(Packet) /\ q # <<>> /\ s \in Socket /\ SocketOf(t)' = s
      /\ down'[s] = Tail(q) /\ open[t] # NoAuction
  BY SocketType DEF Hear, Watching, TypeOK, SocketOf
<1>2. /\ p \in Packet /\ p = q[1] /\ DOMAIN q = 1..Len(q) /\ Len(q) \in Nat
      /\ DOMAIN Tail(q) = 1..(Len(q) - 1) /\ \A i \in DOMAIN Tail(q) : Tail(q)[i] = q[i + 1]
  BY <1>1
<1>3. shown'[t].version >= shown[t].version
      /\ (IsSnapshot(p) => shown'[t].version >= p.version)
  <2> DEFINE next == [auction |-> p.auction, version |-> p.version]
  <2>1. shown[t].version \in Int /\ p.version \in Int /\ p.version >= -1
    BY <1>2, VersionOf DEF TypeOK
  <2>2. next.version = p.version /\ NoSnapshot.version = -1
    BY DEF NoSnapshot, NotRead
  <2>3. shown' = IF IsSnapshot(p)
                 THEN [shown EXCEPT ![t] = IF isNewerSnapshot(shown[t], next)
                                           THEN next ELSE shown[t]]
                 ELSE shown
    BY <1>1 DEF Hear
  <2>4. shown'[t] = IF IsSnapshot(p) /\ isNewerSnapshot(shown[t], next) THEN next ELSE shown[t]
    BY <2>3 DEF TypeOK
  <2> HIDE DEF next
  <2>5. QED
    BY <2>1, <2>2, <2>4 DEF isNewerSnapshot
<1>4. shown[t].version \in Int /\ shown'[t].version \in Int /\ p.version \in Int
  <2>1. TypeOK'
    BY ClientType DEF Client
  <2>2. QED
    BY <1>2, <2>1, VersionOf DEF TypeOK
<1>5. v \in Nat /\ (p.version >= v => IsSnapshot(p))
  BY <1>2 DEF Packet, IsSnapshot, Version, NotRead
<1> HIDE DEF s, q, p
<1>6. CASE shown[t].version >= v
  BY <1>3, <1>4, <1>5, <1>6 DEF Knows
<1>7. ASSUME NEW i \in DOMAIN q, q[i].version >= v
      PROVE  Knows(t, v)'
  <2>1. CASE i = 1
    BY <1>2, <1>3, <1>4, <1>5, <1>7, <2>1 DEF Knows
  <2>2. CASE i # 1
    <3>1. i - 1 \in DOMAIN Tail(q) /\ Tail(q)[i - 1] = q[i]
      BY <1>2, <2>2
    <3>2. QED
      BY <1>1, <1>7, <3>1 DEF Knows
  <2>3. QED
    BY <2>1, <2>2
<1>8. QED
  BY <1>6, <1>7 DEF Knows, s, q

\* A packet sent to others or to the page too leaves what was on its way there.
LEMMA SendKeeps ==
  ASSUME TypeOK, NEW t \in Tab, Watching(t), UNCHANGED <<live, shown>>, NEW targets,
         NEW p \in Packet, Send(targets, p), NEW v \in Version
  PROVE  /\ Knows(t, v) => Knows(t, v)'
         /\ SocketOf(t) \in targets /\ p.version >= v => Knows(t, v)'
<1> DEFINE s == SocketOf(t)
           q == down[s]
<1>1. s \in Socket /\ SocketOf(t)' = s /\ q \in Seq(Packet) /\ s \in online /\ live[s[1]] = s[2]
  BY SocketType DEF Watching, TypeOK, SocketOf
<1>2. down'[s] = IF s \in targets THEN Append(q, p) ELSE q
  BY <1>1 DEF Send
<1>3. /\ DOMAIN q = 1..Len(q) /\ Len(q) \in Nat /\ DOMAIN Append(q, p) = 1..(Len(q) + 1)
      /\ Append(q, p)[Len(q) + 1] = p /\ \A i \in DOMAIN q : Append(q, p)[i] = q[i]
  BY <1>1
<1> HIDE DEF s
<1>4. ASSUME Knows(t, v)
      PROVE  Knows(t, v)'
  BY <1>1, <1>2, <1>3, <1>4 DEF Knows, s
<1>5. ASSUME s \in targets, p.version >= v
      PROVE  Knows(t, v)'
  <2>1. Len(q) + 1 \in DOMAIN down'[s] /\ down'[s][Len(q) + 1].version >= v
    BY <1>2, <1>3, <1>5
  <2>2. QED
    BY <1>1, <2>1 DEF Knows
<1>6. QED
  BY <1>4, <1>5 DEF s

\* The answer to the page, or the broadcast to its room, is sent.
LEMMA RespondNews ==
  ASSUME TypeOK, RoomKept, NEW t \in Tab, Watching(t), UNCHANGED <<live, shown, open, room, up>>,
         SocketOf(t)' = SocketOf(t), NEW w \in work, Respond(w), ~Joining(t),
         Knows(t, announced[open[t]]) \/ WillKnow(t, announced[open[t]])
  PROVE  (Knows(t, announced[open[t]]) \/ WillKnow(t, announced[open[t]]))'
<1> DEFINE s == SocketOf(t)
           a == open[t]
           v == announced[a]
           p == [event |-> "snapshot", auction |-> w.auction,
                 version |-> w.version, request |-> w.request]
<1>1. a \in Auction /\ v \in Version /\ w \in Work
  BY DEF Watching, TypeOK
<1>2. p \in Packet /\ p.version = w.version /\ w.version \in Version /\ Send(Told(w), p)
  BY <1>1 DEF Respond, Work, Packet
<1>3. work' = work \ {w} /\ open'[t] = a
  BY DEF Respond
<1>4. s \in room[a]
  BY DEF RoomKept, Inside
<1> HIDE DEF p
<1>5. CASE announced'[a] = v
  <2>1. CASE Knows(t, v)
    BY <1>1, <1>2, <1>3, <1>5, <2>1, SendKeeps
  <2>2. ASSUME NEW x \in work, x.handler = "join", x.socket = s, x.auction = a,
               x.version \in {NotRead} \union {n \in Nat : n >= v}
        PROVE  (Knows(t, announced[open[t]]) \/ WillKnow(t, announced[open[t]]))'
    <3>1. CASE x = w
      <4>1. s \in Told(w) /\ p.version >= v
        BY <1>2, <2>2, <3>1 DEF Told, Broadcast, Version, NotRead
      <4>2. QED
        BY <1>1, <1>2, <1>3, <1>5, <4>1, SendKeeps
    <3>2. CASE x # w
      BY <1>3, <1>5, <2>2, <3>2 DEF WillKnow
    <3>3. QED
      BY <3>1, <3>2
  <2>3. QED
    BY <2>1, <2>2 DEF WillKnow
<1>6. CASE announced'[a] # v
  <2>1. Broadcast(w) /\ w.auction = a /\ announced'[a] = w.version
    BY <1>1, <1>6 DEF Respond, TypeOK, Work
  <2>2. s \in Told(w) /\ p.version >= announced'[a] /\ announced'[a] \in Version
    BY <1>2, <1>4, <2>1 DEF Told, Version
  <2>3. QED
    BY <1>2, <1>3, <2>2, SendKeeps
<1>7. QED
  BY <1>5, <1>6

\* Work added, or nothing: what the page will know it still will.
LEMMA WorkGrows ==
  ASSUME NEW t \in Tab, UNCHANGED <<open, announced>>, SocketOf(t)' = SocketOf(t), work \subseteq work',
         WillKnow(t, announced[open[t]])
  PROVE  WillKnow(t, announced[open[t]])'
BY DEF WillKnow

LEMMA ServerNews ==
  ASSUME TypeOK, Versions, RoomKept, NewsKept, faults' = 0, Server, NEW t \in Tab, Watching(t)'
  PROVE  (Joining(t) \/ Knows(t, announced[open[t]]) \/ WillKnow(t, announced[open[t]]))'
<1> DEFINE s == SocketOf(t)
           a == open[t]
           News == Knows(t, announced[open[t]]) \/ WillKnow(t, announced[open[t]])
<1>1. /\ Watching(t) /\ UNCHANGED <<live, open, shown>> /\ SocketOf(t)' = s /\ s \in Socket
      /\ a \in Auction /\ announced[a] \in Version
  BY ServerWatching DEF Watching, TypeOK
<1>2. faults = 0
  <2>1. \A w \in work : ~handleError(w)
    BY DEF handleError, TypeOK
  <2>2. QED
    BY <2>1 DEF Server, Receive, handleDisconnect, Change, broadcastPaymentState, LoadAuction,
       Respond
<1>3. Joining(t) \/ News
  BY <1>1, <1>2 DEF NewsKept
<1>4. CASE Receive(s)
  <2> DEFINE q == up[s]
  <2>1. s \in online /\ q # <<>> /\ q \in Seq(Request)
    BY <1>4, TakenType DEF Receive
  <2>2. /\ up'[s] = Tail(q) /\ Handle(s, Head(q)) /\ down' = down
        /\ UNCHANGED <<open, announced>>
    BY <1>1, <1>4 DEF Receive, TypeOK, clientVars, pageVars
  <2>3. work \subseteq work'
    BY <2>2 DEF Handle, handleJoin, handleResync, handleLeave, Started
  <2>4. CASE News
    BY <1>1, <2>2, <2>3, <2>4, WorkGrows DEF Knows
  <2>5. CASE JoinLast(Tail(q), a)
    BY <1>1, <2>2, <2>5 DEF Joining
  <2>6. CASE Head(q).event = "join" /\ Head(q).auction = a
    <3> DEFINE w == [handler |-> "join", socket |-> s, auction |-> a, version |-> NotRead,
                     request |-> Head(q).request]
    <3>1. w \in work'
      BY <2>2, <2>6 DEF Handle, handleJoin, Started
    <3>2. w.handler = "join" /\ w.socket = s /\ w.auction = a /\ w.version = NotRead
      OBVIOUS
    <3> HIDE DEF w
    <3>3. QED
      BY <1>1, <3>1, <3>2 DEF WillKnow
  <2>7. QED
    BY <1>3, <2>1, <2>4, <2>5, <2>6, TakeFirst DEF Joining
<1>5. CASE ~Receive(s) /\ Joining(t)
  BY <1>1, <1>5, ServerWatching DEF Joining
<1>6. ASSUME UNCHANGED <<announced, down>>, work \subseteq work', News
      PROVE  News'
  BY <1>1, <1>6, WorkGrows DEF Knows
<1>7. ASSUME NEW w \in work, LoadAuction(w), News
      PROVE  News'
  <2> DEFINE x == [w EXCEPT !.version = version[w.auction]]
  <2>1. UNCHANGED <<announced, down>> /\ work' = (work \ {w}) \union {x}
    BY <1>7 DEF LoadAuction
  <2>2. w \in Work /\ version[w.auction] \in Nat
    BY DEF TypeOK, Work, Version
  <2>3. /\ x.handler = w.handler /\ x.socket = w.socket /\ x.auction = w.auction
        /\ x.version = version[w.auction]
    BY <2>2 DEF Work
  <2> HIDE DEF x
  <2>4. CASE Knows(t, announced[a])
    BY <1>1, <2>1, <2>4 DEF Knows
  <2>5. CASE WillKnow(t, announced[a])
    <3>1. PICK y \in work : /\ y.handler = "join" /\ y.socket = s /\ y.auction = a
                            /\ y.version \in {NotRead} \union {n \in Nat : n >= announced[a]}
      BY <2>5 DEF WillKnow
    <3>2. CASE y # w
      BY <1>1, <2>1, <3>1, <3>2 DEF WillKnow
    <3>3. CASE y = w
      <4>1. x.version \in {n \in Nat : n >= announced[a]}
        BY <1>1, <2>2, <2>3, <3>1, <3>3 DEF Versions, Version
      <4>2. QED
        BY <1>1, <2>1, <2>3, <3>1, <3>3, <4>1 DEF WillKnow
    <3>4. QED
      BY <3>2, <3>3
  <2>6. QED
    BY <1>7, <2>4, <2>5
<1>8. ASSUME NEW w \in work, Respond(w), News, ~Joining(t)
      PROVE  News'
  <2>1. UNCHANGED <<room, up>>
    BY <1>8 DEF Respond, presenceVars
  <2>2. QED
    BY <1>1, <1>8, <2>1, RespondNews
<1>9. CASE ~Receive(s) /\ ~Joining(t)
  <2>1. News
    BY <1>3, <1>9
  <2>2. ASSUME NEW r \in online, Receive(r)
        PROVE  News'
    BY <1>6, <2>1, <2>2 DEF Receive, Handle, handleJoin, handleResync, handleLeave, Started
  <2>3. ASSUME NEW r \in online, handleDisconnect(r)
        PROVE  News'
    BY <1>6, <2>1, <2>3 DEF handleDisconnect
  <2>4. ASSUME NEW b \in Auction, NEW r \in online \union {NoSocket}, Change(b, r)
        PROVE  News'
    BY <1>6, <2>1, <2>4 DEF Change
  <2>5. ASSUME NEW b \in Auction, broadcastPaymentState(b)
        PROVE  News'
    BY <1>6, <2>1, <2>5 DEF broadcastPaymentState
  <2>6. \A w \in work : ~handleError(w)
    BY DEF handleError, TypeOK
  <2>7. QED
    BY <1>7, <1>8, <1>9, <2>1, <2>2, <2>3, <2>4, <2>5, <2>6 DEF Server
<1>10. QED
  BY <1>4, <1>5, <1>9

LEMMA NewsStep == TypeOK /\ Versions /\ RoomKept /\ NewsKept /\ [Next]_vars => NewsKept'
<1> SUFFICES ASSUME TypeOK, Versions, RoomKept, NewsKept, [Next]_vars,
                    faults' = 0, NEW t \in Tab, Watching(t)'
             PROVE  (Joining(t) \/ Knows(t, announced[open[t]])
                       \/ WillKnow(t, announced[open[t]]))'
  BY DEF NewsKept
<1>1. ASSUME NEW u \in Tab, u # t, Client(u)
      PROVE  (Joining(t) \/ Knows(t, announced[open[t]]) \/ WillKnow(t, announced[open[t]]))'
  <2>1. Joining(t) \/ Knows(t, announced[open[t]]) \/ WillKnow(t, announced[open[t]])
    BY <1>1, OtherTab DEF NewsKept
  <2>2. QED
    BY <1>1, <2>1, OtherTab DEF Joining, Knows, WillKnow
<1>2. ASSUME Client(t), ~Joining(t)'
      PROVE  (Knows(t, announced[open[t]]) \/ WillKnow(t, announced[open[t]]))'
  <2>1. /\ Watching(t) /\ SocketOf(t)' = SocketOf(t) /\ open'[t] = open[t]
        /\ \/ up'[SocketOf(t)] = up[SocketOf(t)]
           \/ \E p \in Request : /\ p.event # "leave"
                                 /\ up'[SocketOf(t)] = up[SocketOf(t)] \o <<p>>
        /\ Hear(t) \/ (shown'[t] = shown[t] /\ down'[SocketOf(t)] = down[SocketOf(t)])
        /\ UNCHANGED <<room, work, announced, faults>>
    BY <1>2, OwnTab
  <2>2. up[SocketOf(t)] \in Seq(Request) /\ announced[open[t]] \in Version
    BY <2>1, SocketType DEF Watching, TypeOK
  <2>3. ~Joining(t)
    BY <1>2, <2>1, <2>2, AppendResync DEF Joining
  <2>4. Knows(t, announced[open[t]]) \/ WillKnow(t, announced[open[t]])
    BY <2>1, <2>3 DEF NewsKept
  <2>5. CASE WillKnow(t, announced[open[t]])
    BY <2>1, <2>5 DEF WillKnow
  <2>6. CASE Knows(t, announced[open[t]]) /\ Hear(t)
    <3>1. announced'[open'[t]] = announced[open[t]]
      BY <2>1
    <3>2. Knows(t, announced[open[t]])'
      BY <2>1, <2>2, <2>6, <3>1, HearKnows DEF Knows
    <3>3. QED
      BY <3>2
  <2>7. CASE Knows(t, announced[open[t]]) /\ ~Hear(t)
    BY <2>1, <2>7 DEF Knows
  <2>8. QED
    BY <2>4, <2>5, <2>6, <2>7
<1>3. CASE UNCHANGED vars
  BY <1>3 DEF vars, serverVars, clientVars, pageVars, NewsKept, Watching, Joining, Knows, WillKnow,
     SocketOf
<1>4. QED
  BY <1>1, <1>2, <1>3, ServerNews DEF Next

-----------------------------------------------------------------------------
(* What a page shows before it hears of another auction. *)

LEMMA StraysStep == TypeOK /\ StraysKnown /\ [Next]_vars => StraysKnown'
<1> SUFFICES ASSUME TypeOK, StraysKnown, [Next]_vars, NEW t \in Tab, ~strayed'[t]
             PROVE  shown'[t].auction \in {NoAuction, open'[t]}
  BY DEF StraysKnown
<1>1. CASE /\ shown'[t] = shown[t] /\ strayed'[t] = strayed[t]
           /\ open'[t] = open[t] \/ shown[t] = NoSnapshot
  BY <1>1 DEF StraysKnown, NoSnapshot
<1>2. CASE shown'[t] = NoSnapshot
  BY <1>2 DEF NoSnapshot
<1>3. CASE Hear(t)
  <2> DEFINE p == Head(down[SocketOf(t)])
             next == [auction |-> p.auction, version |-> p.version]
  <2>1. UNCHANGED <<shown, strayed>> \/
          /\ open[t] # NoAuction
          /\ shown' = [shown EXCEPT ![t] =
               IF isNewerSnapshot(shown[t], next) THEN next ELSE shown[t]]
          /\ strayed' = [strayed EXCEPT ![t] = strayed[t] \/ p.auction # open[t]]
    BY <1>3 DEF Hear
  <2>2. open'[t] = open[t]
    BY <1>3 DEF Hear
  <2>3. CASE UNCHANGED <<shown, strayed>>
    BY <1>1, <2>2, <2>3
  <2>4. CASE ~UNCHANGED <<shown, strayed>>
    <3>1. ~strayed[t] /\ p.auction = open[t] /\ shown'[t] \in {shown[t], next}
      BY <2>1, <2>4 DEF TypeOK
    <3>2. next.auction = p.auction
      OBVIOUS
    <3>3. shown[t].auction \in {NoAuction, open[t]}
      BY <3>1 DEF StraysKnown
    <3> HIDE DEF next, p
    <3>4. QED
      BY <2>2, <3>1, <3>2, <3>3
  <2>5. QED
    BY <2>3, <2>4
<1>4. CASE open[t] = NoAuction /\ shown'[t] = shown[t] /\ strayed'[t] = strayed[t]
  BY <1>4 DEF StraysKnown
<1>5. ASSUME NEW u \in Tab, Client(u), ~Hear(t)
      PROVE  shown'[t].auction \in {NoAuction, open'[t]}
  <2>1. ASSUME NEW a \in Auction, OpenPage(u, a)
        PROVE  shown'[t].auction \in {NoAuction, open'[t]}
    BY <1>1, <1>4, <2>1 DEF OpenPage, TypeOK
  <2>2. CASE ClosePage(u)
    BY <1>1, <1>2, <2>2 DEF ClosePage, TypeOK
  <2>3. CASE resync(u) \/ Connect(u) \/ Drop(u) \/ ChangeToken(u)
             \/ \E r \in 1..MaxRequests : AckTimeout(u, r)
    BY <1>1, <2>3 DEF resync, Connect, Drop, ChangeToken, AckTimeout
  <2>4. CASE Hear(u)
    BY <1>1, <1>5, <2>4 DEF Hear, TypeOK
  <2>5. QED
    BY <1>5, <2>1, <2>2, <2>3, <2>4 DEF Client
<1>6. CASE Server
  <2>1. UNCHANGED <<shown, strayed, open>>
    BY <1>6 DEF Server, Receive, handleDisconnect, Change, broadcastPaymentState, LoadAuction,
       Respond, handleError, clientVars, pageVars
  <2>2. QED
    BY <1>1, <2>1
<1>7. CASE UNCHANGED vars
  BY <1>1, <1>7 DEF vars, clientVars, pageVars
<1>8. QED
  BY <1>3, <1>5, <1>6, <1>7 DEF Next

-----------------------------------------------------------------------------
(* The theorems. *)

\* The rooms, the presence maps, the packets and the handlers under way stay such
\* that every open page comes right.
THEOREM RoomInvariance == Spec => []RInv
<1>1. RInv /\ [Next]_vars => RInv'
  BY TypeStep, VersionsStep, ConnectionsStep, PresenceStep, RoomStep, NewsStep,
     StraysStep DEF RInv
<1>2. QED
  BY InitRInv, <1>1, PTL DEF Spec

\* The presence maps agree with each other, with the rooms and with the sockets
\* held open (auctionPresence.service.ts, auctionRealtime.handler.ts).
THEOREM PresenceMatchesRoom == Spec => []PresenceIsRoom
<1>1. RInv => PresenceIsRoom
  BY DEF RInv
<1>2. QED
  BY RoomInvariance, <1>1, PTL

\* A tab with a page open and nothing under way watches it.
LEMMA QuietWatches ==
  ASSUME TypeOK, NEW t \in Tab, open[t] # NoAuction, Quiet(t)
  PROVE  Watching(t) /\ ~Joining(t)
<1>1. SocketOf(t) \in online /\ up[SocketOf(t)] = <<>>
  BY DEF Quiet
<1>2. live[t] # 0
  BY <1>1 DEF TypeOK, Socket, SocketOf
<1>3. ~Joining(t)
  BY <1>1 DEF Joining, JoinLast
<1>4. QED
  BY <1>1, <1>2, <1>3 DEF Watching

\* However joins, leaves and reconnects follow one another, the socket of an open
\* page ends up in its room (useAuctionRoom.ts, socket.ts).
THEOREM OpenPagesInRoom == Spec => []OpenPageIsInRoom
<1>1. RInv => OpenPageIsInRoom
  <2> SUFFICES ASSUME RInv, NEW t \in Tab, open[t] # NoAuction, Quiet(t)
               PROVE  SocketOf(t) \in room[open[t]]
    BY DEF OpenPageIsInRoom
  <2>1. Watching(t) /\ ~Joining(t)
    BY QuietWatches DEF RInv
  <2>2. QED
    BY <2>1 DEF RInv, RoomKept, Inside
<1>2. QED
  BY RoomInvariance, <1>1, PTL

\* A page that says it is connected, unless a database call failed, shows its own
\* auction or has heard a snapshot of another one, and when it shows its own it has
\* missed no broadcast (auctionRealtime.handler.ts: the room is joined before the read;
\* useAuctionRoom.ts: newer snapshots win).
THEOREM NothingMissed == Spec => []JoinedPageIsUpToDate
<1>1. RInv => JoinedPageIsUpToDate
  <2> SUFFICES ASSUME RInv, faults = 0, NEW t \in Tab, Settled(t)
               PROVE  /\ ~strayed[t] => shown[t].auction = open[t]
                      /\ shown[t].version >= announced[open[t]]
    BY DEF JoinedPageIsUpToDate
  <2>1. open[t] # NoAuction /\ Quiet(t)
    BY DEF Settled
  <2>2. Watching(t) /\ ~Joining(t)
    BY <2>1, QuietWatches DEF RInv
  <2>3. Knows(t, announced[open[t]]) \/ WillKnow(t, announced[open[t]])
    BY <2>2 DEF RInv, NewsKept
  <2>4. ~WillKnow(t, announced[open[t]])
    BY <2>1 DEF Quiet, WillKnow
  <2>5. shown[t].version >= announced[open[t]]
    BY <2>1, <2>3, <2>4 DEF Quiet, Knows
  <2>6. shown[t].auction # NoAuction
    <3>1. announced[open[t]] \in Nat /\ NoSnapshot.version = -1
      BY <2>1 DEF RInv, TypeOK, Version, NoSnapshot, NotRead
    <3>2. shown[t] # NoSnapshot
      BY <2>5, <3>1
    <3>3. QED
      BY <3>2 DEF RInv, TypeOK, Snapshot
  <2>7. QED
    BY <2>5, <2>6 DEF RInv, StraysKnown
<1>2. QED
  BY RoomInvariance, <1>1, PTL

\* An open page never goes back to an older version (isNewerSnapshot).
THEOREM NeverBack == Spec => VersionNeverBack
<1>1. ASSUME TypeOK, [Next]_vars, NEW t \in Tab, open'[t] = open[t], open[t] # NoAuction
      PROVE  shown'[t].version >= shown[t].version
  <2>1. shown[t].version \in Int
    BY <1>1, VersionOf DEF TypeOK
  <2>2. CASE Hear(t)
    <3> DEFINE p == Head(down[SocketOf(t)])
               next == [auction |-> p.auction, version |-> p.version]
    <3>1. SocketOf(t) \in Socket /\ p \in Packet
      BY <1>1, <2>2, SocketType DEF Hear, TypeOK
    <3>2. next.version \in Int /\ next.version >= -1 /\ NoSnapshot.version = -1
      BY <3>1, VersionOf DEF NoSnapshot, NotRead
    <3>3. shown'[t] = shown[t] \/ (isNewerSnapshot(shown[t], next) /\ shown'[t] = next)
      BY <1>1, <2>2 DEF Hear, TypeOK
    <3> HIDE DEF next
    <3>4. QED
      BY <2>1, <3>2, <3>3 DEF isNewerSnapshot
  <2>3. ASSUME NEW u \in Tab, Client(u), ~Hear(t)
        PROVE  shown'[t] = shown[t]
    <3>1. ~ClosePage(t)
      BY <1>1 DEF ClosePage, TypeOK
    <3>2. QED
      BY <1>1, <2>3, <3>1
         DEF Client, OpenPage, ClosePage, resync, Connect, Drop, ChangeToken, AckTimeout, Hear, TypeOK
  <2>4. Server => shown' = shown
    BY DEF Server, Receive, handleDisconnect, Change, broadcastPaymentState, LoadAuction, Respond,
       handleError, clientVars, pageVars
  <2>5. UNCHANGED vars => shown' = shown
    BY DEF vars, clientVars, pageVars
  <2>6. QED
    BY <1>1, <2>1, <2>2, <2>3, <2>4, <2>5 DEF Next
<1>2. TypeOK /\ [Next]_vars
        => [\A t \in Tab : open'[t] = open[t] /\ open[t] # NoAuction
                            => shown'[t].version >= shown[t].version]_vars
  BY <1>1
<1>3. RInv => TypeOK
  BY DEF RInv
<1>4. QED
  BY RoomInvariance, <1>2, <1>3, PTL DEF Spec, VersionNeverBack
=============================================================================
