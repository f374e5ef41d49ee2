-------------------------- MODULE RoomFormsProofs ---------------------------
(***************************************************************************)
(* For any tabs, prices, typed amounts and bounds: suggestions are         *)
(* informed, no permission shown to the wrong person lets a bid or a       *)
(* message in, and every page shows the chat as the room was told it.      *)
(***************************************************************************)
EXTENDS RoomForms, TLAPS

USE FormsAssumption

-----------------------------------------------------------------------------
(* Sequences. *)

LEMMA Appended ==
  ASSUME NEW S, NEW s \in Seq(S), NEW e \in S
  PROVE  /\ Append(s, e) \in Seq(S)
         /\ \A x \in Elements(Append(s, e)) : x \in Elements(s) \/ x = e
<1>1. Append(s, e) \in Seq(S)
  OBVIOUS
<1>2. ASSUME NEW i \in DOMAIN Append(s, e)
      PROVE  Append(s, e)[i] \in Elements(s) \/ Append(s, e)[i] = e
  BY DEF Elements
<1>3. QED
  BY <1>1, <1>2 DEF Elements

LEMMA Shortened ==
  ASSUME NEW S, NEW s \in Seq(S), s # <<>>
  PROVE  /\ Tail(s) \in Seq(S) /\ Elements(Tail(s)) \subseteq Elements(s)
         /\ Head(s) \in Elements(s) /\ Head(s) \in S
<1>1. Head(s) = s[1] /\ 1 \in DOMAIN s /\ Head(s) \in S /\ Tail(s) \in Seq(S)
  OBVIOUS
<1>2. ASSUME NEW i \in DOMAIN Tail(s)
      PROVE  Tail(s)[i] \in Elements(s)
  <2>1. i + 1 \in DOMAIN s /\ Tail(s)[i] = s[i + 1]
    OBVIOUS
  <2>2. QED
    BY <2>1 DEF Elements
<1>3. QED
  BY <1>1, <1>2 DEF Elements

LEMMA Joined ==
  ASSUME NEW S, NEW s \in Seq(S), NEW r \in Seq(S)
  PROVE  /\ s \o r \in Seq(S)
         /\ \A x \in Elements(s \o r) : x \in Elements(s) \/ x \in Elements(r)
<1>1. s \o r \in Seq(S)
  OBVIOUS
<1>2. ASSUME NEW i \in DOMAIN (s \o r)
      PROVE  (s \o r)[i] \in Elements(s) \/ (s \o r)[i] \in Elements(r)
  <2>1. i \in 1..(Len(s) + Len(r))
    OBVIOUS
  <2>2. CASE i <= Len(s)
    <3>1. (s \o r)[i] = s[i] /\ i \in DOMAIN s
      BY <2>1, <2>2
    <3>2. QED
      BY <3>1 DEF Elements
  <2>3. CASE i > Len(s)
    <3>1. (s \o r)[i] = r[i - Len(s)] /\ i - Len(s) \in DOMAIN r
      BY <2>1, <2>3
    <3>2. QED
      BY <3>1 DEF Elements
  <2>4. QED
    BY <2>1, <2>2, <2>3
<1>3. QED
  BY <1>1, <1>2 DEF Elements

LEMMA Cut ==
  ASSUME NEW S, NEW s \in Seq(S), NEW m \in 1..(Len(s) + 1), NEW n \in 0..Len(s)
  PROVE  SubSeq(s, m, n) \in Seq(S) /\ Elements(SubSeq(s, m, n)) \subseteq Elements(s)
<1>1. SubSeq(s, m, n) \in Seq(S)
  OBVIOUS
<1>2. ASSUME NEW i \in DOMAIN SubSeq(s, m, n)
      PROVE  SubSeq(s, m, n)[i] \in Elements(s)
  <2>1. i + m - 1 \in DOMAIN s /\ SubSeq(s, m, n)[i] = s[i + m - 1]
    OBVIOUS
  <2>2. QED
    BY <2>1 DEF Elements
<1>3. QED
  BY <1>1, <1>2 DEF Elements

\* A sequence without one of its places.
LEMMA Removed ==
  ASSUME NEW S, NEW s \in Seq(S), NEW i \in DOMAIN s
  PROVE  /\ SubSeq(s, 1, i - 1) \o SubSeq(s, i + 1, Len(s)) \in Seq(S)
         /\ Elements(SubSeq(s, 1, i - 1) \o SubSeq(s, i + 1, Len(s))) \subseteq Elements(s)
<1>1. /\ 1 \in 1..(Len(s) + 1) /\ i - 1 \in 0..Len(s)
      /\ i + 1 \in 1..(Len(s) + 1) /\ Len(s) \in 0..Len(s)
  OBVIOUS
<1>2. /\ SubSeq(s, 1, i - 1) \in Seq(S) /\ Elements(SubSeq(s, 1, i - 1)) \subseteq Elements(s)
      /\ SubSeq(s, i + 1, Len(s)) \in Seq(S)
      /\ Elements(SubSeq(s, i + 1, Len(s))) \subseteq Elements(s)
  BY <1>1, Cut
<1> DEFINE before == SubSeq(s, 1, i - 1)
           after == SubSeq(s, i + 1, Len(s))
<1>3. /\ before \o after \in Seq(S)
      /\ \A x \in Elements(before \o after) : x \in Elements(before) \/ x \in Elements(after)
  <2> HIDE DEF before, after
  <2>1. before \in Seq(S) /\ after \in Seq(S)
    BY <1>2 DEF before, after
  <2>2. QED
    BY <2>1, Joined
<1>4. QED
  BY <1>2, <1>3

LEMMA Update ==
  ASSUME NEW S, NEW T, NEW f \in [S -> T], NEW x, x \in S, NEW y, y \in T
  PROVE  [f EXCEPT ![x] = y] \in [S -> T]
  OBVIOUS

-----------------------------------------------------------------------------
(* Prices and versions. *)

\* How an action may change the auction: the version rises alone, or with a bid
\* that was checked.
BidApplied ==
  \E b \in Bid :
    /\ bids' = Append(bids, b)
    /\ version' = version + 1 /\ b.version = version + 1
    /\ b.amount >= getMinimumNextBidMinor(bids)
    /\ b.suggested => Dated(b.seen, b.amount)
Advanced ==
  \/ bids' = bids /\ version' \in Nat /\ version' >= version
  \/ BidApplied

\* What the auction keeps: dates stay, the snapshot of the new state is dated,
\* and bids are as they should be.
Kept ==
  /\ \A v, minimum \in Int : Dated(v, minimum) => Dated(v, minimum)'
  /\ Dated(version, getMinimumNextBidMinor(bids))'
  /\ Ledger' /\ SuggestionsAreInformed'
  /\ version' \in Nat /\ bids' \in Seq(Bid) /\ getMinimumNextBidMinor(bids)' \in Nat

LEMMA AdvanceKeeps ==
  ASSUME FInv, Advanced
  PROVE  Kept
<1> USE DEF FInv
<1>1. /\ version \in Nat /\ bids \in Seq(Bid)
      /\ \A i \in DOMAIN bids : bids[i] \in Bid
      /\ DOMAIN bids = 1..Len(bids) /\ Len(bids) \in Nat
      /\ bids = <<>> <=> Len(bids) = 0
  BY DEF TypeOK
<1>2. \A b \in Bid : b.amount \in Nat /\ b.seen \in Nat /\ b.version \in Nat
  BY DEF Bid
<1>3. getMinimumNextBidMinor(bids) \in Nat
  BY <1>1, <1>2 DEF getMinimumNextBidMinor
<1>4. CASE bids' = bids /\ version' \in Nat /\ version' >= version
  <2>1. \A i \in DOMAIN bids : bids[i].version <= version'
    BY <1>1, <1>2, <1>4 DEF Ledger
  <2>2. \A v, minimum \in Int : Dated(v, minimum) => Dated(v, minimum)'
    BY <1>1, <1>4 DEF Dated, getMinimumNextBidMinor
  <2>3. Dated(version, getMinimumNextBidMinor(bids))'
    BY <1>1, <1>2, <1>3, <1>4, <2>1 DEF Dated, getMinimumNextBidMinor
  <2>4. QED
    BY <1>1, <1>3, <1>4, <2>1, <2>2, <2>3
       DEF Kept, Ledger, SuggestionsAreInformed, getMinimumNextBidMinor
<1>5. CASE BidApplied
  <2>1. PICK b \in Bid :
          /\ bids' = Append(bids, b)
          /\ version' = version + 1 /\ b.version = version + 1
          /\ b.amount >= getMinimumNextBidMinor(bids)
          /\ b.suggested => Dated(b.seen, b.amount)
    BY <1>5 DEF BidApplied
  <2> DEFINE n == Len(bids) + 1
  <2>2. /\ bids' \in Seq(Bid) /\ DOMAIN bids' = 1..n /\ Len(bids') = n /\ bids' # <<>>
        /\ bids'[n] = b /\ \A i \in DOMAIN bids : i \in 1..n /\ bids'[i] = bids[i]
        /\ \A i \in 1..n : i \in DOMAIN bids \/ i = n
        /\ n \in Nat /\ n >= 1
    BY <1>1, <2>1
  <2>3. b.amount \in Nat /\ b.seen \in Nat /\ b.version \in Nat
    BY <1>2
  <2>4. getMinimumNextBidMinor(bids') = b.amount + MinimumIncrement
    BY <2>2 DEF getMinimumNextBidMinor
  <2>5. n > 1 => n - 1 \in DOMAIN bids
                   /\ getMinimumNextBidMinor(bids) = bids[n - 1].amount + MinimumIncrement
    BY <1>1 DEF getMinimumNextBidMinor
  <2>6. ASSUME NEW v \in Int, NEW minimum \in Int, Dated(v, minimum)
        PROVE  Dated(v, minimum)'
    <3>1. v <= version' /\ minimum <= getMinimumNextBidMinor(bids')
      BY <1>1, <1>3, <2>1, <2>3, <2>4, <2>6 DEF Dated
    <3>2. \A i \in DOMAIN bids' : v < bids'[i].version => minimum <= bids'[i].amount
      BY <1>1, <1>3, <2>1, <2>2, <2>3, <2>6 DEF Dated
    <3>3. QED
      BY <3>1, <3>2 DEF Dated
  <2>7. \A i \in DOMAIN bids' : bids'[i].version <= version'
    BY <1>1, <1>2, <2>1, <2>2, <2>3 DEF Ledger
  <2>8. Dated(version, getMinimumNextBidMinor(bids))'
    BY <1>1, <1>2, <2>1, <2>2, <2>3, <2>4, <2>7 DEF Dated
  <2>9. ASSUME NEW i \in DOMAIN bids', i > 1, bids'[i].suggested
        PROVE  bids'[i].seen >= bids'[i - 1].version
    <3>1. CASE i = n
      <4>1. Dated(b.seen, b.amount) /\ n - 1 \in DOMAIN bids
        BY <2>1, <2>2, <2>5, <2>9, <3>1
      <4>2. b.amount > bids[n - 1].amount
        BY <1>1, <1>2, <2>1, <2>3, <2>5, <2>9, <3>1
      <4>3. b.seen >= bids[n - 1].version
        BY <1>1, <1>2, <2>3, <4>1, <4>2 DEF Dated
      <4>4. QED
        BY <2>2, <3>1, <4>1, <4>3
    <3>2. CASE i \in DOMAIN bids
      <4>1. i - 1 \in DOMAIN bids
        BY <1>1, <2>9, <3>2
      <4>2. QED
        BY <2>2, <2>9, <3>2, <4>1 DEF SuggestionsAreInformed
    <3>3. QED
      BY <2>2, <2>9, <3>1, <3>2
  <2>10. version' \in Nat /\ getMinimumNextBidMinor(bids') \in Nat
    BY <1>1, <2>1, <2>3, <2>4
  <2>11. QED
    BY <2>2, <2>6, <2>7, <2>8, <2>9, <2>10 DEF Kept, Ledger, SuggestionsAreInformed
<1>6. QED
  BY <1>4, <1>5 DEF Advanced

-----------------------------------------------------------------------------
(* What an action may do with what is under way: requests and answers stay *)
(* what they were, new requests are sound, new snapshots are of now, and   *)
(* the page shows what came.                                               *)

RequestsFollow ==
  /\ \A t \in Tab : \A p \in Elements(buffer'[t]) :
       p \in Elements(buffer[t]) \/ (p \in Request /\ Sound(p, t))
  /\ \A s \in Socket : \A p \in Elements(up'[s]) :
       p \in Elements(up[s]) \/ (p \in Request /\ Sound(p, s[1]))
  /\ \A w \in waiting' : w \in waiting \/ Sound(w.bid, w.socket[1])
  /\ \A c \in chatting' : c \in chatting \/ c.message.tab = c.socket[1]

OfNow(p) ==
  p.event = "snapshot" =>
    p.snapshot.version = version' /\ p.snapshot.minimum = getMinimumNextBidMinor(bids')

AnswersFollow ==
  /\ \A t \in Tab : \A p \in Elements(down'[t]) : p \in Elements(down[t]) \/ OfNow(p)
  /\ \A t \in Tab : \/ shown'[t] = shown[t]
                    \/ \E p \in Elements(down[t]) : p.event = "snapshot" /\ shown'[t] = p.snapshot

LEMMA ElementsTyped ==
  ASSUME NEW S, NEW s \in Seq(S)
  PROVE  \A x \in Elements(s) : x \in S
  BY DEF Elements

LEMMA SoundKept ==
  ASSUME Kept, NEW p, NEW t, Sound(p, t),
         p.event = "bid" => p \in BidIntent
  PROVE  Sound(p, t)'
<1>1. CASE p.event = "bid" /\ p.suggested
  <2>1. p.seen \in Int /\ p.amount \in Int /\ Dated(p.seen, p.amount)
    BY <1>1 DEF BidIntent, Sound
  <2>2. Dated(p.seen, p.amount)'
    BY <2>1 DEF Kept
  <2>3. QED
    BY <1>1, <2>2 DEF Sound
<1>2. CASE ~(p.event = "bid" /\ p.suggested)
  BY <1>2 DEF Sound
<1>3. QED
  BY <1>1, <1>2

LEMMA StepKeeps ==
  ASSUME FInv, TypeOK', Advanced, RequestsFollow, AnswersFollow, who' = who
  PROVE  FInv'
<1>1. Kept
  BY AdvanceKeeps
<1>2. TypeOK /\ RequestsSound /\ SnapshotsDated
  BY DEF FInv
<1>3. \A p \in Request : p.event = "bid" => p \in BidIntent
  BY DEF Request
<1>4. ASSUME NEW t \in Tab, NEW p \in Elements(buffer'[t])
      PROVE  Sound(p, t)'
  <2>1. p \in Request /\ Sound(p, t)
    <3>1. buffer[t] \in Seq(Request)
      BY <1>2 DEF TypeOK
    <3>2. QED
      BY <1>2, <3>1, ElementsTyped DEF RequestsFollow, RequestsSound
  <2>2. QED
    BY <1>1, <1>3, <2>1, SoundKept
<1>5. ASSUME NEW s \in Socket, NEW p \in Elements(up'[s])
      PROVE  Sound(p, s[1])'
  <2>1. p \in Request /\ Sound(p, s[1])
    <3>1. up[s] \in Seq(Request)
      BY <1>2 DEF TypeOK
    <3>2. QED
      BY <1>2, <3>1, ElementsTyped DEF RequestsFollow, RequestsSound
  <2>2. QED
    BY <1>1, <1>3, <2>1, SoundKept
<1>6. ASSUME NEW w \in waiting'
      PROVE  Sound(w.bid, w.socket[1])'
  <2>1. w.bid \in BidIntent
    BY DEF TypeOK
  <2>2. Sound(w.bid, w.socket[1])
    BY <1>2 DEF RequestsFollow, RequestsSound
  <2>3. QED
    BY <1>1, <2>1, <2>2, SoundKept
<1>7. \A c \in chatting' : c.message.tab = c.socket[1]
  BY <1>2 DEF RequestsFollow, RequestsSound
<1>8. RequestsSound'
  BY <1>4, <1>5, <1>6, <1>7 DEF RequestsSound
<1>9. ASSUME NEW t \in Tab, NEW p \in Elements(down[t]), p.event = "snapshot"
      PROVE  /\ p.snapshot \in Snapshot
             /\ Dated(p.snapshot.version, p.snapshot.minimum)'
  <2>1. p \in Packet
    <3>1. down[t] \in Seq(Packet)
      BY <1>2 DEF TypeOK
    <3>2. QED
      BY <3>1, ElementsTyped
  <2>2. p.snapshot \in Snapshot
    BY <1>9, <2>1 DEF Packet
  <2>3. p.snapshot.version \in Int /\ p.snapshot.minimum \in Int
    BY <2>2 DEF Snapshot
  <2>4. Dated(p.snapshot.version, p.snapshot.minimum)
    BY <1>2, <1>9 DEF SnapshotsDated
  <2>5. QED
    BY <1>1, <2>2, <2>3, <2>4 DEF Kept
<1>10. ASSUME NEW t \in Tab, NEW p \in Elements(down'[t]), p.event = "snapshot"
       PROVE  Dated(p.snapshot.version, p.snapshot.minimum)'
  <2>1. CASE p \in Elements(down[t])
    BY <1>9, <1>10, <2>1
  <2>2. CASE OfNow(p)
    BY <1>1, <1>10, <2>2 DEF OfNow, Kept, Dated
  <2>3. QED
    BY <2>1, <2>2 DEF AnswersFollow
<1>11. ASSUME NEW t \in Tab
       PROVE  Dated(shown[t].version, shown[t].minimum)'
  <2>1. CASE shown'[t] = shown[t]
    <3>1. Dated(shown[t].version, shown[t].minimum)
      BY <1>2 DEF SnapshotsDated
    <3>2. shown[t].version \in Int /\ shown[t].minimum \in Int
      <4>1. shown[t] \in Snapshot \/ shown[t] = NoSnapshot
        BY <1>2 DEF TypeOK
      <4>2. QED
        BY <4>1 DEF Snapshot, NoSnapshot
    <3>3. \A v, minimum \in Int : Dated(v, minimum) => Dated(v, minimum)'
      BY <1>1 DEF Kept
    <3> DEFINE v == shown[t].version
               minimum == shown[t].minimum
    <3>4. Dated(v, minimum)'
      BY <2>1, <3>1, <3>2, <3>3 DEF Dated
    <3>5. QED
      BY <3>4
  <2>2. ASSUME NEW p \in Elements(down[t]), p.event = "snapshot", shown'[t] = p.snapshot
        PROVE  Dated(shown[t].version, shown[t].minimum)'
    BY <1>9, <2>2 DEF Dated
  <2>3. QED
    BY <2>1, <2>2 DEF AnswersFollow
<1>12. SnapshotsDated'
  BY <1>10, <1>11 DEF SnapshotsDated
<1>13. QED
  BY <1>1, <1>8, <1>12 DEF FInv, Kept

-----------------------------------------------------------------------------
(* The page. *)

LEMMA EmitFollows ==
  ASSUME TypeOK, NEW t \in Tab, NEW packet \in Request, Emit(t, packet), Sound(packet, t)
  PROVE  /\ buffer' \in [Tab -> Seq(Request)] /\ up' \in [Socket -> Seq(Request)]
         /\ \A x \in Tab : \A p \in Elements(buffer'[x]) :
              p \in Elements(buffer[x]) \/ (p \in Request /\ Sound(p, x))
         /\ \A s \in Socket : \A p \in Elements(up'[s]) :
              p \in Elements(up[s]) \/ (p \in Request /\ Sound(p, s[1]))
<1>1. buffer \in [Tab -> Seq(Request)] /\ up \in [Socket -> Seq(Request)]
  BY DEF TypeOK
<1>2. CASE live[t]
  <2>1. buffer' = buffer /\ up' = [up EXCEPT ![SocketOf(t)] = Append(@, packet)]
    BY <1>2 DEF Emit
  <2>2. ASSUME NEW s \in Socket
        PROVE  /\ up'[s] \in Seq(Request)
               /\ \A p \in Elements(up'[s]) :
                    p \in Elements(up[s]) \/ (p \in Request /\ Sound(p, s[1]))
    <3>1. up[s] \in Seq(Request)
      BY <1>1
    <3>2. CASE s = SocketOf(t)
      <4>1. up'[s] = Append(up[s], packet) /\ s[1] = t
        BY <1>1, <2>1, <3>2 DEF SocketOf
      <4>2. QED
        BY <3>1, <4>1, Appended
    <3>3. CASE s # SocketOf(t)
      BY <1>1, <2>1, <3>1, <3>3
    <3>4. QED
      BY <3>2, <3>3
  <2>3. up' \in [Socket -> Seq(Request)]
    BY <1>1, <2>1, <2>2
  <2>4. QED
    BY <1>1, <2>1, <2>2, <2>3
<1>3. CASE ~live[t]
  <2>1. up' = up /\ buffer' = [buffer EXCEPT ![t] = Append(buffer[t], packet)]
    BY <1>3 DEF Emit
  <2>2. buffer[t] \in Seq(Request)
    BY <1>1
  <2>3. /\ Append(buffer[t], packet) \in Seq(Request)
        /\ \A p \in Elements(Append(buffer[t], packet)) : p \in Elements(buffer[t]) \/ p = packet
    BY <2>2, Appended
  <2>4. buffer' \in [Tab -> Seq(Request)]
    BY <1>1, <2>1, <2>3, Update
  <2>5. \A x \in Tab : buffer'[x] = IF x = t THEN Append(buffer[t], packet) ELSE buffer[x]
    BY <1>1, <2>1
  <2>6. QED
    BY <1>1, <2>1, <2>3, <2>4, <2>5
<1>4. QED
  BY <1>2, <1>3

\* The actions of a page, which leave the auction and the server alone.
LEMMA PageKeeps ==
  ASSUME FInv, TypeOK', UNCHANGED <<who, auction, told>>, RequestsFollow, AnswersFollow
  PROVE  FInv'
<1>1. Advanced
  BY DEF Advanced, auction, FInv, TypeOK
<1>2. QED
  BY <1>1, StepKeeps

\* The server's side is typed when it stays.
ServerTyped ==
  /\ who \in Visitors
  /\ status \in {"UPCOMING", "ACTIVE", "COMPLETED"} /\ over \in BOOLEAN
  /\ version \in Nat /\ bids \in Seq(Bid)
  /\ room \subseteq Socket
  /\ joins \subseteq Socket
  /\ waiting \subseteq [socket : Socket, bid : BidIntent]
  /\ chatting \subseteq [socket : Socket, message : Message]
  /\ told \in Seq(Message)

LEMMA ServerStays ==
  ASSUME TypeOK, UNCHANGED <<who, auction, room, handlers, told>>
  PROVE  ServerTyped'
  BY DEF TypeOK, ServerTyped, auction, handlers

LEMMA PressBidKeeps ==
  ASSUME FInv, NEW t \in Tab, PressBid(t)
  PROVE  FInv'
<1>1. TypeOK /\ SnapshotsDated
  BY DEF FInv
<1>2. presses[t] \in Nat /\ presses' = [presses EXCEPT ![t] = @ + 1]
  BY <1>1 DEF PressBid, Count, TypeOK
<1>3. shown[t] \in Snapshot
  <2>1. shown[t] \in Snapshot \/ shown[t] = NoSnapshot
    BY <1>1 DEF TypeOK
  <2>2. shown[t].canBid
    BY DEF PressBid
  <2>3. QED
    BY <2>1, <2>2 DEF NoSnapshot
<1>4. PICK suggested \in BOOLEAN :
        \E amount \in (IF suggested THEN {shown[t].minimum} ELSE Typed) \ {0} :
          Emit(t, [event |-> "bid", press |-> presses[t] + 1, amount |-> amount,
                   suggested |-> suggested, seen |-> shown[t].version])
  BY DEF PressBid
<1>5. PICK amount \in (IF suggested THEN {shown[t].minimum} ELSE Typed) \ {0} :
        Emit(t, [event |-> "bid", press |-> presses[t] + 1, amount |-> amount,
                 suggested |-> suggested, seen |-> shown[t].version])
  BY <1>4
<1> DEFINE bid == [event |-> "bid", press |-> presses[t] + 1, amount |-> amount,
                   suggested |-> suggested, seen |-> shown[t].version]
<1>6. bid \in Request
  <2>1. amount \in Nat /\ shown[t].version \in Nat /\ presses[t] + 1 \in Press
    <3>1. shown[t].minimum \in Nat /\ shown[t].version \in Nat
      BY <1>3 DEF Snapshot
    <3>2. (IF suggested THEN {shown[t].minimum} ELSE Typed) \subseteq Nat
      BY <3>1
    <3>3. QED
      BY <1>2, <3>1, <3>2 DEF Press
  <2>2. bid \in BidIntent
    BY <2>1 DEF BidIntent
  <2>3. QED
    BY <2>2 DEF Request
<1>7. Sound(bid, t)
  BY <1>1 DEF Sound, SnapshotsDated
<1>8. /\ buffer' \in [Tab -> Seq(Request)] /\ up' \in [Socket -> Seq(Request)]
      /\ \A x \in Tab : \A p \in Elements(buffer'[x]) :
           p \in Elements(buffer[x]) \/ (p \in Request /\ Sound(p, x))
      /\ \A s \in Socket : \A p \in Elements(up'[s]) :
           p \in Elements(up[s]) \/ (p \in Request /\ Sound(p, s[1]))
  <2> HIDE DEF bid
  <2>1. Emit(t, bid)
    BY <1>5 DEF bid
  <2>2. QED
    BY <1>1, <1>6, <1>7, <2>1, EmitFollows
<1>9. RequestsFollow
  BY <1>8 DEF RequestsFollow, PressBid, handlers
<1>10. AnswersFollow
  BY DEF AnswersFollow, PressBid
<1>11. TypeOK'
  <2>1. ServerTyped'
    BY <1>1, ServerStays DEF PressBid
  <2>2. presses' \in [Tab -> Nat] /\ pending' \in [Tab -> Nat]
    BY <1>1, <1>2 DEF PressBid, TypeOK
  <2>3. QED
    BY <1>1, <1>8, <2>1, <2>2 DEF PressBid, TypeOK, ServerTyped
<1>12. QED
  BY <1>9, <1>10, <1>11, PageKeeps DEF PressBid

LEMMA PressSendKeeps ==
  ASSUME FInv, NEW t \in Tab, PressSend(t)
  PROVE  FInv'
<1>1. TypeOK
  BY DEF FInv
<1>2. presses[t] \in Nat /\ presses' = [presses EXCEPT ![t] = @ + 1] /\ live[t] \in BOOLEAN
  BY <1>1 DEF PressSend, Count, TypeOK
<1> DEFINE message == [tab |-> t, press |-> presses[t] + 1, kept |-> ~live[t]]
           packet == [event |-> "chat", press |-> presses[t] + 1, message |-> message]
<1>3. packet \in Request
  <2>1. message \in Message
    BY <1>2 DEF Message, Press
  <2>2. presses[t] + 1 \in Press
    BY <1>2 DEF Press
  <2> HIDE DEF message
  <2>3. QED
    BY <2>1, <2>2 DEF Request
<1>4. Sound(packet, t)
  BY DEF Sound
<1>5. /\ buffer' \in [Tab -> Seq(Request)] /\ up' \in [Socket -> Seq(Request)]
      /\ \A x \in Tab : \A p \in Elements(buffer'[x]) :
           p \in Elements(buffer[x]) \/ (p \in Request /\ Sound(p, x))
      /\ \A s \in Socket : \A p \in Elements(up'[s]) :
           p \in Elements(up[s]) \/ (p \in Request /\ Sound(p, s[1]))
  <2>1. Emit(t, packet)
    BY DEF PressSend
  <2> HIDE DEF packet
  <2>2. QED
    BY <1>1, <1>3, <1>4, <2>1, EmitFollows
<1>6. RequestsFollow
  BY <1>5 DEF RequestsFollow, PressSend, handlers
<1>7. AnswersFollow
  BY DEF AnswersFollow, PressSend
<1>8. TypeOK'
  <2>1. ServerTyped'
    BY <1>1, ServerStays DEF PressSend
  <2>2. presses' \in [Tab -> Nat] /\ sending' \in [Tab -> Nat]
    BY <1>1, <1>2 DEF PressSend, TypeOK
  <2>3. QED
    BY <1>1, <1>5, <2>1, <2>2 DEF PressSend, TypeOK, ServerTyped
<1>9. QED
  BY <1>6, <1>7, <1>8, PageKeeps DEF PressSend

LEMMA ConnectKeeps ==
  ASSUME FInv, NEW t \in Tab, Connect(t)
  PROVE  FInv'
<1>1. TypeOK /\ RequestsSound
  BY DEF FInv
<1> DEFINE join == [event |-> "join", press |-> 0]
           new == <<t, connection[t] + 1>>
<1>2. /\ buffer[t] \in Seq(Request) /\ join \in Request /\ Sound(join, t) /\ new[1] = t
      /\ new \in Socket
  BY <1>1 DEF TypeOK, Request, Sound, Connect
<1>3. /\ buffer' = [buffer EXCEPT ![t] = <<>>] /\ up' = [up EXCEPT ![new] = Append(buffer[t], join)]
      /\ connection' = [connection EXCEPT ![t] = @ + 1] /\ live' = [live EXCEPT ![t] = TRUE]
  BY DEF Connect
<1> HIDE DEF join, new
<1>4. /\ Append(buffer[t], join) \in Seq(Request)
      /\ \A p \in Elements(Append(buffer[t], join)) : p \in Elements(buffer[t]) \/ p = join
  BY <1>2, Appended
<1>5. /\ buffer' \in [Tab -> Seq(Request)] /\ up' \in [Socket -> Seq(Request)]
      /\ live' \in [Tab -> BOOLEAN]
  <2>1. buffer \in [Tab -> Seq(Request)] /\ up \in [Socket -> Seq(Request)]
        /\ live \in [Tab -> BOOLEAN] /\ <<>> \in Seq(Request)
    BY <1>1 DEF TypeOK
  <2>2. QED
    BY <1>2, <1>3, <1>4, <2>1, Update
<1>6. connection' \in [Tab -> 0..MaxConnections]
  <2>1. connection[t] + 1 \in 0..MaxConnections /\ connection \in [Tab -> 0..MaxConnections]
    BY <1>1, <1>2 DEF TypeOK, Socket, new
  <2>2. QED
    BY <1>3, <2>1, Update
<1>7. \A x \in Tab : buffer'[x] = IF x = t THEN <<>> ELSE buffer[x]
  BY <1>1, <1>3 DEF TypeOK
<1>8. \A s \in Socket : up'[s] = IF s = new THEN Append(buffer[t], join) ELSE up[s]
  BY <1>1, <1>3 DEF TypeOK
<1>9. \A p \in Elements(buffer[t]) : p \in Request /\ Sound(p, t)
  BY <1>1, <1>2, ElementsTyped DEF RequestsSound
<1>10. \A p \in Elements(<<>>) : FALSE
  BY DEF Elements
<1>11. RequestsFollow
  <2>1. \A x \in Tab : \A p \in Elements(buffer'[x]) : p \in Elements(buffer[x])
    BY <1>7, <1>10
  <2>2. \A s \in Socket : \A p \in Elements(up'[s]) :
          p \in Elements(up[s]) \/ (p \in Request /\ Sound(p, s[1]))
    BY <1>2, <1>4, <1>8, <1>9
  <2>3. QED
    BY <2>1, <2>2 DEF RequestsFollow, Connect, handlers
<1>12. AnswersFollow
  BY DEF AnswersFollow, Connect, page
<1>13. ServerTyped'
  BY <1>1, ServerStays DEF Connect
<1>14. TypeOK'
  BY <1>1, <1>5, <1>6, <1>13 DEF Connect, TypeOK, ServerTyped, page
<1>15. QED
  BY <1>11, <1>12, <1>14, PageKeeps DEF Connect

LEMMA DropKeeps ==
  ASSUME FInv, NEW t \in Tab, Drop(t)
  PROVE  FInv'
<1>1. TypeOK
  BY DEF FInv
<1>2. \A x \in Tab : down'[x] = IF x = t THEN <<>> ELSE down[x]
  BY <1>1 DEF Drop, TypeOK
<1>3. \A p \in Elements(<<>>) : FALSE
  BY DEF Elements
<1>4. AnswersFollow
  BY <1>2, <1>3 DEF AnswersFollow, Drop
<1>5. RequestsFollow
  BY DEF RequestsFollow, Drop, handlers
<1>6. ServerTyped'
  BY <1>1, ServerStays DEF Drop
<1>7. /\ down' \in [Tab -> Seq(Packet)] /\ live' \in [Tab -> BOOLEAN]
      /\ pending' \in [Tab -> Nat] /\ sending' \in [Tab -> Nat]
  <2>1. <<>> \in Seq(Packet) /\ FALSE \in BOOLEAN /\ 0 \in Nat
    OBVIOUS
  <2>2. QED
    BY <1>1, <2>1, Update DEF Drop, TypeOK
<1>8. TypeOK'
  BY <1>1, <1>6, <1>7 DEF Drop, TypeOK, ServerTyped
<1>9. QED
  BY <1>4, <1>5, <1>8, PageKeeps DEF Drop

LEMMA GiveUpKeeps ==
  ASSUME FInv, NEW t \in Tab, NEW p, GiveUp(t, p),
         pending' \in [Tab -> Nat], sending' \in [Tab -> Nat]
  PROVE  FInv'
<1>1. TypeOK
  BY DEF FInv
<1>2. /\ buffer' \in [Tab -> Seq(Request)]
      /\ \A x \in Tab : Elements(buffer'[x]) \subseteq Elements(buffer[x])
  <2>1. CASE UNCHANGED buffer
    BY <1>1, <2>1 DEF TypeOK
  <2>2. ASSUME NEW i \in DOMAIN buffer[t],
               buffer' = [buffer EXCEPT ![t] = SubSeq(@, 1, i - 1) \o SubSeq(@, i + 1, Len(@))]
        PROVE  <1>2!2 /\ <1>2!1
    <3> DEFINE rest == SubSeq(buffer[t], 1, i - 1) \o SubSeq(buffer[t], i + 1, Len(buffer[t]))
    <3>1. buffer[t] \in Seq(Request) /\ buffer \in [Tab -> Seq(Request)]
      BY <1>1 DEF TypeOK
    <3>2. rest \in Seq(Request) /\ Elements(rest) \subseteq Elements(buffer[t])
      BY <3>1, Removed
    <3>3. buffer' = [buffer EXCEPT ![t] = rest]
      BY <2>2
    <3> HIDE DEF rest
    <3>4. QED
      BY <3>1, <3>2, <3>3
  <2>3. QED
    BY <2>1, <2>2 DEF GiveUp
<1>3. RequestsFollow
  BY <1>2 DEF RequestsFollow, GiveUp, handlers
<1>4. AnswersFollow
  BY DEF AnswersFollow, GiveUp
<1>5. ServerTyped'
  BY <1>1, ServerStays DEF GiveUp
<1>6. TypeOK'
  BY <1>1, <1>2, <1>5 DEF GiveUp, TypeOK, ServerTyped
<1>7. QED
  BY <1>3, <1>4, <1>6, PageKeeps DEF GiveUp

LEMMA TimeoutKeeps ==
  ASSUME FInv, NEW t \in Tab, BidTimesOut(t) \/ SendTimesOut(t)
  PROVE  FInv'
<1>1. pending' \in [Tab -> Nat] /\ sending' \in [Tab -> Nat]
  <2>1. pending \in [Tab -> Nat] /\ sending \in [Tab -> Nat] /\ 0 \in Nat
    BY DEF FInv, TypeOK
  <2>2. CASE BidTimesOut(t)
    BY <2>1, <2>2, Update DEF BidTimesOut
  <2>3. CASE SendTimesOut(t)
    BY <2>1, <2>3, Update DEF SendTimesOut
  <2>4. QED
    BY <2>2, <2>3
<1>2. QED
  BY <1>1, GiveUpKeeps DEF BidTimesOut, SendTimesOut

LEMMA handleMessageType ==
  ASSUME NEW list \in Seq(Message), NEW m \in Message
  PROVE  handleMessage(list, m) \in Seq(Message)
<1>1. CASE Len(list) >= ChatLimit
  <2>1. /\ Len(list) - ChatLimit + 2 \in 1..(Len(list) + 1) /\ Len(list) \in 0..Len(list)
    BY <1>1
  <2>2. SubSeq(list, Len(list) - ChatLimit + 2, Len(list)) \in Seq(Message)
    BY <2>1, Cut
  <2>3. QED
    BY <1>1, <2>2 DEF handleMessage
<1>2. CASE ~(Len(list) >= ChatLimit)
  <2>1. Len(list) < ChatLimit
    BY <1>2
  <2>2. QED
    BY <2>1 DEF handleMessage
<1>3. QED
  BY <1>1, <1>2

LEMMA HearKeeps ==
  ASSUME FInv, NEW t \in Tab, Hear(t)
  PROVE  FInv'
<1>1. TypeOK
  BY DEF FInv
<1> DEFINE p == Head(down[t])
<1>2. /\ down[t] \in Seq(Packet) /\ Tail(down[t]) \in Seq(Packet)
      /\ Elements(Tail(down[t])) \subseteq Elements(down[t])
      /\ p \in Elements(down[t]) /\ p \in Packet
  <2>1. down[t] \in Seq(Packet) /\ down[t] # <<>>
    BY <1>1 DEF TypeOK, Hear
  <2>2. QED
    BY <2>1, Shortened
<1>3. HearSnapshot(t, p) \/ HearBidAnswer(t, p) \/ HearMessage(t, p) \/ HearChatAnswer(t, p)
  BY DEF Hear
<1> HIDE DEF p
<1>4. down' \in [Tab -> Seq(Packet)] /\ \A x \in Tab : Elements(down'[x]) \subseteq Elements(down[x])
  <2>1. down' = [down EXCEPT ![t] = Tail(down[t])] /\ down \in [Tab -> Seq(Packet)]
    BY <1>1 DEF Hear, TypeOK
  <2>2. QED
    BY <1>2, <2>1
<1>5. /\ \A x \in Tab : shown'[x] = shown[x] \/ (p.event = "snapshot" /\ x = t /\ shown'[x] = p.snapshot)
      /\ shown' \in [Tab -> Snapshot \union {NoSnapshot}]
      /\ pending' \in [Tab -> Nat] /\ sending' \in [Tab -> Nat]
      /\ messages' \in [Tab -> Seq(Message)] /\ confirmed' \in [Tab -> SUBSET Message]
  <2>0. /\ shown \in [Tab -> Snapshot \union {NoSnapshot}]
        /\ pending \in [Tab -> Nat] /\ sending \in [Tab -> Nat]
        /\ messages \in [Tab -> Seq(Message)] /\ confirmed \in [Tab -> SUBSET Message]
    BY <1>1 DEF TypeOK
  <2>1. CASE HearSnapshot(t, p)
    <3>1. p.event = "snapshot" /\ p.snapshot \in Snapshot
      BY <1>2, <2>1 DEF HearSnapshot, Packet
    <3>2. QED
      BY <2>0, <2>1, <3>1 DEF HearSnapshot
  <2>2. CASE HearBidAnswer(t, p)
    BY <2>0, <2>2 DEF HearBidAnswer
  <2>3. CASE HearMessage(t, p)
    <3>1. p.message \in Message
      BY <1>2, <2>3 DEF HearMessage, Packet
    <3>2. handleMessage(messages[t], p.message) \in Seq(Message)
      BY <2>0, <3>1, handleMessageType
    <3>3. messages' = [messages EXCEPT ![t] = handleMessage(messages[t], p.message)]
      BY <2>3 DEF HearMessage
    <3>4. messages' \in [Tab -> Seq(Message)]
      BY <2>0, <3>2, <3>3, Update
    <3>5. QED
      BY <2>0, <2>3, <3>4 DEF HearMessage
  <2>4. CASE HearChatAnswer(t, p)
    <3>1. p.message \in Message
      BY <1>2, <2>4 DEF HearChatAnswer, Packet
    <3>2. /\ sending' = [sending EXCEPT ![t] = IF sending[t] = p.message.press THEN 0 ELSE @]
          /\ confirmed' = [confirmed EXCEPT ![t] =
                IF sending[t] = p.message.press /\ p.sent THEN @ \union {p.message} ELSE @]
      BY <2>4 DEF HearChatAnswer
    <3>3. sending' \in [Tab -> Nat]
      BY <2>0, <3>2
    <3>4. confirmed[t] \union {p.message} \in SUBSET Message /\ confirmed[t] \in SUBSET Message
      BY <2>0, <3>1
    <3>5. confirmed' \in [Tab -> SUBSET Message]
      BY <2>0, <3>2, <3>4
    <3>6. QED
      BY <2>0, <2>4, <3>3, <3>5 DEF HearChatAnswer
  <2>5. QED
    BY <1>3, <2>1, <2>2, <2>3, <2>4
<1>6. AnswersFollow
  BY <1>2, <1>4, <1>5 DEF AnswersFollow
<1>7. RequestsFollow
  BY DEF RequestsFollow, Hear, handlers
<1>8. ServerTyped'
  BY <1>1, ServerStays DEF Hear
<1>9. TypeOK'
  BY <1>1, <1>4, <1>5, <1>8 DEF Hear, TypeOK, ServerTyped
<1>10. QED
  BY <1>6, <1>7, <1>9, PageKeeps DEF Hear

-----------------------------------------------------------------------------
(* What the server sends. *)

\* The packets for each tab are those it had, with these behind them.
Extended(packets) ==
  /\ down' \in [Tab -> Seq(Packet)]
  /\ \A t \in Tab : \A p \in Elements(down'[t]) : p \in Elements(down[t]) \/ p \in packets

LEMMA TwoMore ==
  ASSUME NEW S, NEW s \in Seq(S), NEW x \in Seq(S), NEW y \in Seq(S)
  PROVE  /\ s \o x \o y \in Seq(S)
         /\ \A e \in Elements(s \o x \o y) :
              e \in Elements(s) \/ e \in Elements(x) \/ e \in Elements(y)
<1> DEFINE z == s \o x
<1>1. z \in Seq(S) /\ \A e \in Elements(z) : e \in Elements(s) \/ e \in Elements(x)
  BY Joined
<1>2. z \o y \in Seq(S) /\ \A e \in Elements(z \o y) : e \in Elements(z) \/ e \in Elements(y)
  <2> HIDE DEF z
  <2>1. QED
    BY <1>1, Joined
<1>3. QED
  BY <1>1, <1>2

LEMMA OnePacket ==
  ASSUME NEW p \in Packet, NEW cond
  PROVE  /\ (IF cond THEN <<p>> ELSE <<>>) \in Seq(Packet)
         /\ \A e \in Elements(IF cond THEN <<p>> ELSE <<>>) : e = p
<1>1. <<p>> \in Seq(Packet) /\ \A e \in Elements(<<p>>) : e = p
  BY DEF Elements
<1>2. <<>> \in Seq(Packet) /\ \A e \in Elements(<<>>) : e = p
  BY DEF Elements
<1>3. CASE cond
  BY <1>1, <1>3
<1>4. CASE ~cond
  BY <1>2, <1>4
<1>5. QED
  BY <1>3, <1>4

LEMMA AnswerExtends ==
  ASSUME TypeOK, NEW s, NEW packet \in Packet, Answer(s, packet)
  PROVE  Extended({packet})
<1>1. \A t \in Tab : down[t] \in Seq(Packet)
  BY DEF TypeOK
<1>2. down' = [t \in Tab |-> IF Reaches(s, t) THEN Append(down[t], packet) ELSE down[t]]
  BY DEF Answer
<1>3. \A t \in Tab : /\ Append(down[t], packet) \in Seq(Packet)
                     /\ \A p \in Elements(Append(down[t], packet)) :
                          p \in Elements(down[t]) \/ p = packet
  BY <1>1, Appended
<1>4. QED
  BY <1>1, <1>2, <1>3 DEF Extended

LEMMA TellRoomExtends ==
  ASSUME TypeOK, NEW packet \in Packet, TellRoom(packet)
  PROVE  Extended({packet})
<1>1. \A t \in Tab : down[t] \in Seq(Packet)
  BY DEF TypeOK
<1>2. down' = [t \in Tab |-> IF RoomReaches(t) THEN Append(down[t], packet) ELSE down[t]]
  BY DEF TellRoom
<1>3. \A t \in Tab : /\ Append(down[t], packet) \in Seq(Packet)
                     /\ \A p \in Elements(Append(down[t], packet)) :
                          p \in Elements(down[t]) \/ p = packet
  BY <1>1, Appended
<1>4. QED
  BY <1>1, <1>2, <1>3 DEF Extended

LEMMA AnswerThenTellExtends ==
  ASSUME TypeOK, NEW s, NEW answer \in Packet, NEW packet \in Packet,
         AnswerThenTell(s, answer, packet)
  PROVE  Extended({answer, packet})
<1> DEFINE a(t) == IF Reaches(s, t) THEN <<answer>> ELSE <<>>
           b(t) == IF RoomReaches(t) THEN <<packet>> ELSE <<>>
<1>1. down' = [t \in Tab |-> down[t] \o a(t) \o b(t)]
  BY DEF AnswerThenTell
<1>2. \A t \in Tab : /\ down[t] \in Seq(Packet) /\ a(t) \in Seq(Packet) /\ b(t) \in Seq(Packet)
                     /\ \A e \in Elements(a(t)) : e = answer
                     /\ \A e \in Elements(b(t)) : e = packet
  BY OnePacket DEF TypeOK
<1> HIDE DEF a, b
<1>3. ASSUME NEW t \in Tab
      PROVE  /\ down'[t] \in Seq(Packet)
             /\ \A p \in Elements(down'[t]) : p \in Elements(down[t]) \/ p = answer \/ p = packet
  <2> DEFINE s0 == down[t]
             x == a(t)
             y == b(t)
  <2>1. /\ down'[t] = s0 \o x \o y /\ s0 \in Seq(Packet)
        /\ x \in Seq(Packet) /\ y \in Seq(Packet)
        /\ \A e \in Elements(x) : e = answer
        /\ \A e \in Elements(y) : e = packet
    BY <1>1, <1>2
  <2>2. /\ s0 \o x \o y \in Seq(Packet)
        /\ \A p \in Elements(s0 \o x \o y) : p \in Elements(s0) \/ p = answer \/ p = packet
    <3> HIDE DEF s0, x, y
    <3>1. QED
      BY <2>1, TwoMore
  <2>3. QED
    BY <2>1, <2>2
<1>4. down' \in [Tab -> Seq(Packet)]
  BY <1>1, <1>3
<1>5. QED
  BY <1>3, <1>4 DEF Extended

LEMMA TellThenAnswerExtends ==
  ASSUME TypeOK, NEW s, NEW packet \in Packet, NEW answer \in Packet,
         TellThenAnswer(s, packet, answer)
  PROVE  Extended({answer, packet})
<1> DEFINE a(t) == IF RoomReaches(t) THEN <<packet>> ELSE <<>>
           b(t) == IF Reaches(s, t) THEN <<answer>> ELSE <<>>
<1>1. down' = [t \in Tab |-> down[t] \o a(t) \o b(t)]
  BY DEF TellThenAnswer
<1>2. \A t \in Tab : /\ down[t] \in Seq(Packet) /\ a(t) \in Seq(Packet) /\ b(t) \in Seq(Packet)
                     /\ \A e \in Elements(a(t)) : e = packet
                     /\ \A e \in Elements(b(t)) : e = answer
  BY OnePacket DEF TypeOK
<1> HIDE DEF a, b
<1>3. ASSUME NEW t \in Tab
      PROVE  /\ down'[t] \in Seq(Packet)
             /\ \A p \in Elements(down'[t]) : p \in Elements(down[t]) \/ p = packet \/ p = answer
  <2> DEFINE s0 == down[t]
             x == a(t)
             y == b(t)
  <2>1. /\ down'[t] = s0 \o x \o y /\ s0 \in Seq(Packet)
        /\ x \in Seq(Packet) /\ y \in Seq(Packet)
        /\ \A e \in Elements(x) : e = packet
        /\ \A e \in Elements(y) : e = answer
    BY <1>1, <1>2
  <2>2. /\ s0 \o x \o y \in Seq(Packet)
        /\ \A p \in Elements(s0 \o x \o y) : p \in Elements(s0) \/ p = packet \/ p = answer
    <3> HIDE DEF s0, x, y
    <3>1. QED
      BY <2>1, TwoMore
  <2>3. QED
    BY <2>1, <2>2
<1>4. down' \in [Tab -> Seq(Packet)]
  BY <1>1, <1>3
<1>5. QED
  BY <1>3, <1>4 DEF Extended

\* The snapshot of the new state.
LEMMA SnapshotTyped ==
  ASSUME NEW u, version' \in Nat, getMinimumNextBidMinor(bids)' \in Nat
  PROVE  SnapshotFor(u) \in Packet /\ OfNow(SnapshotFor(u))
<1> DEFINE canBid == u \notin {NoUser, Seller} /\ status' = "ACTIVE" /\ ~over'
           canChat == u # NoUser
           snapshot == [version |-> version', minimum |-> getMinimumNextBidMinor(bids'),
                        canBid |-> canBid, canChat |-> canChat]
<1>1. buildSnapshot(u) = snapshot
  BY DEF buildSnapshot
<1>2. canBid \in BOOLEAN /\ canChat \in BOOLEAN
  OBVIOUS
<1>3. getMinimumNextBidMinor(bids') \in Nat
  BY DEF getMinimumNextBidMinor
<1> HIDE DEF canBid, canChat
<1>4. /\ snapshot \in Snapshot
      /\ snapshot.version = version' /\ snapshot.minimum = getMinimumNextBidMinor(bids')
  BY <1>2, <1>3 DEF Snapshot
<1> HIDE DEF snapshot
<1>5. QED
  BY <1>1, <1>4 DEF SnapshotFor, Packet, OfNow

LEMMA ServerStep ==
  ASSUME FInv, Advanced, RequestsFollow, UNCHANGED <<who, shown>>,
         ServerTyped', up' \in [Socket -> Seq(Request)], faults' \in 0..MaxFaults,
         UNCHANGED <<connection, live, buffer, page, presses>>,
         NEW packets, Extended(packets), \A p \in packets : OfNow(p)
  PROVE  FInv'
<1>1. TypeOK
  BY DEF FInv
<1>2. AnswersFollow
  BY DEF AnswersFollow, Extended
<1>3. TypeOK'
  BY <1>1 DEF TypeOK, ServerTyped, Extended, page
<1>4. QED
  BY <1>2, <1>3, StepKeeps

-----------------------------------------------------------------------------
(* The actions of the server. *)

LEMMA Still ==
  ASSUME FInv, UNCHANGED auction
  PROVE  Advanced
  BY DEF Advanced, auction, FInv, TypeOK

LEMMA FaultTyped ==
  ASSUME TypeOK, Fault \/ UNCHANGED faults
  PROVE  faults' \in 0..MaxFaults
  BY DEF TypeOK, Fault

LEMMA ReceiveKeeps ==
  ASSUME FInv, NEW s \in Socket, Receive(s)
  PROVE  FInv'
<1>1. TypeOK /\ RequestsSound
  BY DEF FInv
<1> DEFINE p == Head(up[s])
<1>2. /\ up[s] \in Seq(Request) /\ Tail(up[s]) \in Seq(Request)
      /\ Elements(Tail(up[s])) \subseteq Elements(up[s])
      /\ p \in Elements(up[s]) /\ p \in Request
  <2>1. up[s] \in Seq(Request) /\ up[s] # <<>>
    BY <1>1 DEF TypeOK, Receive
  <2>2. QED
    BY <2>1, Shortened
<1>3. Sound(p, s[1])
  BY <1>1, <1>2 DEF RequestsSound
<1>4. \/ /\ p.event = "join" /\ room' = room \union {s} /\ joins' = joins \union {s}
         /\ UNCHANGED <<waiting, chatting>>
      \/ /\ p.event = "bid" /\ waiting' = waiting \union {[socket |-> s, bid |-> p]}
         /\ UNCHANGED <<room, joins, chatting>>
      \/ /\ p.event = "chat"
         /\ chatting' = chatting \union {[socket |-> s, message |-> p.message]}
         /\ UNCHANGED <<room, joins, waiting>>
  BY DEF Receive
<1> HIDE DEF p
<1>5. up' \in [Socket -> Seq(Request)] /\ \A r \in Socket : Elements(up'[r]) \subseteq Elements(up[r])
  <2>1. up' = [up EXCEPT ![s] = Tail(up[s])] /\ up \in [Socket -> Seq(Request)]
    BY <1>1 DEF Receive, TypeOK
  <2>2. QED
    BY <1>2, <2>1
<1>6. /\ room' \subseteq Socket /\ joins' \subseteq Socket
      /\ waiting' \subseteq [socket : Socket, bid : BidIntent]
      /\ \A w \in waiting' : w \in waiting \/ Sound(w.bid, w.socket[1])
      /\ chatting' \subseteq [socket : Socket, message : Message]
      /\ \A c \in chatting' : c \in chatting \/ c.message.tab = c.socket[1]
  <2>0. /\ room \subseteq Socket /\ joins \subseteq Socket
        /\ waiting \subseteq [socket : Socket, bid : BidIntent]
        /\ chatting \subseteq [socket : Socket, message : Message]
    BY <1>1 DEF TypeOK
  <2>1. CASE p.event = "join"
    BY <1>4, <2>0, <2>1
  <2>2. CASE p.event = "bid"
    <3>1. p \in BidIntent
      BY <1>2, <2>2 DEF Request
    <3>2. QED
      BY <1>3, <1>4, <2>0, <2>2, <3>1
  <2>3. CASE p.event = "chat"
    <3>1. p.message \in Message /\ p.message.tab = s[1]
      BY <1>2, <1>3, <2>3 DEF Request, BidIntent, Sound
    <3>2. QED
      BY <1>4, <2>0, <2>3, <3>1
  <2>4. QED
    BY <1>4, <2>1, <2>2, <2>3
<1>7. RequestsFollow
  BY <1>5, <1>6 DEF RequestsFollow, Receive
<1>8. ServerTyped'
  BY <1>1, <1>6 DEF ServerTyped, TypeOK, Receive, auction
<1>9. Extended({})
  BY <1>1 DEF Extended, TypeOK, Receive
<1>10. Advanced
  BY Still DEF Receive
<1>11. faults' \in 0..MaxFaults
  BY <1>1, FaultTyped DEF Receive
<1>12. UNCHANGED <<connection, live, buffer, page, presses, who, shown>>
  BY DEF Receive, page
<1>13. QED
  BY <1>5, <1>7, <1>8, <1>9, <1>10, <1>11, <1>12, ServerStep

LEMMA AnswerJoinKeeps ==
  ASSUME FInv, NEW s \in joins, AnswerJoin(s)
  PROVE  FInv'
<1>1. TypeOK
  BY DEF FInv
<1>2. Advanced /\ Kept
  BY Still, AdvanceKeeps DEF AnswerJoin
<1> DEFINE packet == SnapshotFor(UserOf(s))
<1>3. packet \in Packet /\ OfNow(packet)
  BY <1>2, SnapshotTyped DEF Kept
<1>4. Answer(s, packet)
  BY DEF AnswerJoin
<1> HIDE DEF packet
<1>5. Extended({packet})
  BY <1>1, <1>3, <1>4, AnswerExtends
<1>6. RequestsFollow
  BY DEF RequestsFollow, AnswerJoin
<1>7. ServerTyped' /\ up' \in [Socket -> Seq(Request)]
  BY <1>1 DEF ServerTyped, TypeOK, AnswerJoin, auction
<1>8. faults' \in 0..MaxFaults
  BY <1>1, FaultTyped DEF AnswerJoin
<1>9. UNCHANGED <<connection, live, buffer, page, presses, who, shown>>
  BY DEF AnswerJoin, page
<1>10. QED
  BY <1>2, <1>3, <1>5, <1>6, <1>7, <1>8, <1>9, ServerStep

-----------------------------------------------------------------------------
(* Bids. *)

LEMMA BidAdvances ==
  ASSUME FInv, NEW w \in waiting, ApplyAcceptedBid(w)
  PROVE  Advanced
<1>1. TypeOK /\ RequestsSound
  BY DEF FInv
<1>2. w.socket \in Socket /\ w.bid \in BidIntent /\ Sound(w.bid, w.socket[1])
  BY <1>1 DEF TypeOK, RequestsSound
<1> DEFINE u == UserOf(w.socket)
<1>3. u \in User \union {NoUser} /\ u \notin {NoUser, Seller}
  BY <1>1, <1>2 DEF TypeOK, Socket, UserOf, ApplyAcceptedBid, Accepts
<1>4. /\ w.bid.event = "bid" /\ w.bid.amount \in Nat /\ w.bid.suggested \in BOOLEAN
      /\ w.bid.seen \in Nat /\ version + 1 \in Nat
  BY <1>1, <1>2 DEF BidIntent, TypeOK
<1> DEFINE b == [user |-> u, amount |-> w.bid.amount, suggested |-> w.bid.suggested,
                 seen |-> w.bid.seen, version |-> version + 1]
<1>5. bids' = Append(bids, b) /\ version' = version + 1
  BY DEF ApplyAcceptedBid
<1>6. w.bid.amount >= getMinimumNextBidMinor(bids)
  BY DEF ApplyAcceptedBid, Accepts
<1>7. b.suggested => Dated(b.seen, b.amount)
  BY <1>2, <1>4 DEF Sound
<1> HIDE DEF u
<1>8. b \in Bid /\ b.version = version + 1 /\ b.amount = w.bid.amount /\ b.user = u
  BY <1>3, <1>4 DEF Bid
<1> HIDE DEF b
<1>9. QED
  BY <1>3, <1>5, <1>6, <1>7, <1>8 DEF Advanced, BidApplied

\* A bid that is decided, the auction advanced or not, with what is sent of it.
LEMMA BidDecided ==
  ASSUME FInv, NEW w \in waiting, waiting' = waiting \ {w}, Advanced,
         status' \in {"UPCOMING", "ACTIVE", "COMPLETED"}, over' \in BOOLEAN,
         UNCHANGED <<who, room, joins, chatting, told, connection, live, buffer, up, page, presses>>,
         Fault \/ UNCHANGED faults,
         NEW packets, Extended(packets), \A p \in packets : OfNow(p)
  PROVE  FInv'
<1>1. TypeOK
  BY DEF FInv
<1>2. Kept
  BY AdvanceKeeps
<1>3. RequestsFollow
  BY DEF RequestsFollow
<1>4. ServerTyped' /\ up' \in [Socket -> Seq(Request)]
  BY <1>1, <1>2 DEF ServerTyped, TypeOK, Kept
<1>5. faults' \in 0..MaxFaults
  BY <1>1, FaultTyped
<1>6. UNCHANGED <<connection, live, buffer, page, presses, who, shown>>
  BY DEF page
<1>7. QED
  BY <1>3, <1>4, <1>5, <1>6, ServerStep

LEMMA BidAnswerTyped ==
  ASSUME TypeOK, NEW w \in waiting
  PROVE  BidAnswer(w) \in Packet /\ OfNow(BidAnswer(w))
<1>1. w.bid.press \in Press
  BY DEF TypeOK, BidIntent
<1>2. QED
  BY <1>1 DEF BidAnswer, Packet, OfNow

LEMMA AcceptBidKeeps ==
  ASSUME FInv, NEW w \in waiting, AcceptBid(w)
  PROVE  FInv'
<1>1. TypeOK
  BY DEF FInv
<1>2. Advanced /\ Kept
  BY BidAdvances, AdvanceKeeps DEF AcceptBid
<1> DEFINE answer == BidAnswer(w)
           packet == SnapshotFor(UserOf(w.socket))
<1>3. answer \in Packet /\ OfNow(answer) /\ packet \in Packet /\ OfNow(packet)
  BY <1>1, <1>2, BidAnswerTyped, SnapshotTyped DEF Kept
<1>4. AnswerThenTell(w.socket, answer, packet)
  BY DEF AcceptBid
<1>5. status' \in {"UPCOMING", "ACTIVE", "COMPLETED"} /\ over' \in BOOLEAN
  BY <1>1 DEF AcceptBid, ApplyAcceptedBid, TypeOK
<1> HIDE DEF answer, packet
<1>6. Extended({answer, packet})
  BY <1>1, <1>3, <1>4, AnswerThenTellExtends
<1>7. \A p \in {answer, packet} : OfNow(p)
  BY <1>3
<1>8. /\ waiting' = waiting \ {w} /\ UNCHANGED faults
      /\ UNCHANGED <<who, room, joins, chatting, told, connection, live, buffer, up, page, presses>>
  BY DEF AcceptBid
<1>9. QED
  BY <1>2, <1>5, <1>6, <1>7, <1>8, BidDecided

LEMMA BidRefusedKeeps ==
  ASSUME FInv, NEW w \in waiting, RefuseBid(w) \/ BidFails(w)
  PROVE  FInv'
<1>1. TypeOK
  BY DEF FInv
<1>2. Advanced
  BY BidAdvances, Still DEF RefuseBid, BidFails
<1> DEFINE answer == BidAnswer(w)
<1>3. answer \in Packet /\ OfNow(answer)
  BY <1>1, BidAnswerTyped
<1>4. Answer(w.socket, answer)
  BY DEF RefuseBid, BidFails
<1>5. status' \in {"UPCOMING", "ACTIVE", "COMPLETED"} /\ over' \in BOOLEAN
  BY <1>1 DEF RefuseBid, BidFails, ApplyAcceptedBid, TypeOK, auction
<1> HIDE DEF answer
<1>6. Extended({answer})
  BY <1>1, <1>3, <1>4, AnswerExtends
<1>7. /\ waiting' = waiting \ {w} /\ (Fault \/ UNCHANGED faults)
      /\ UNCHANGED <<who, room, joins, chatting, told, connection, live, buffer, up, page, presses>>
  BY DEF RefuseBid, BidFails
<1>8. QED
  BY <1>2, <1>3, <1>5, <1>6, <1>7, BidDecided

LEMMA LifecycleAdvances ==
  ASSUME FInv, NEW from, NEW to, Lifecycle(from, to), to \in {"ACTIVE", "COMPLETED"}
  PROVE  /\ Advanced
         /\ status' \in {"UPCOMING", "ACTIVE", "COMPLETED"} /\ over' \in BOOLEAN
  BY DEF FInv, TypeOK, Lifecycle, Advanced

LEMMA RefuseLateBidKeeps ==
  ASSUME FInv, NEW w \in waiting, RefuseLateBid(w)
  PROVE  FInv'
<1>1. TypeOK
  BY DEF FInv
<1>2. /\ Advanced
      /\ status' \in {"UPCOMING", "ACTIVE", "COMPLETED"} /\ over' \in BOOLEAN
  BY LifecycleAdvances DEF RefuseLateBid
<1>3. Kept
  BY <1>2, AdvanceKeeps
<1> DEFINE answer == BidAnswer(w)
           packet == SnapshotFor(UserOf(w.socket))
<1>4. answer \in Packet /\ OfNow(answer) /\ packet \in Packet /\ OfNow(packet)
  BY <1>1, <1>3, BidAnswerTyped, SnapshotTyped DEF Kept
<1>5. AnswerThenTell(w.socket, answer, packet)
  BY DEF RefuseLateBid
<1> HIDE DEF answer, packet
<1>6. Extended({answer, packet})
  BY <1>1, <1>4, <1>5, AnswerThenTellExtends
<1>7. \A p \in {answer, packet} : OfNow(p)
  BY <1>4
<1>8. /\ waiting' = waiting \ {w} /\ UNCHANGED faults
      /\ UNCHANGED <<who, room, joins, chatting, told, connection, live, buffer, up, page, presses>>
  BY DEF RefuseLateBid
<1>9. QED
  BY <1>2, <1>6, <1>7, <1>8, BidDecided

\* The auction moves on without a request.
LEMMA TimerKeeps ==
  ASSUME FInv, startAuction \/ finalizeAuction
  PROVE  FInv'
<1>1. TypeOK
  BY DEF FInv
<1>2. /\ Advanced
      /\ status' \in {"UPCOMING", "ACTIVE", "COMPLETED"} /\ over' \in BOOLEAN
  BY LifecycleAdvances DEF startAuction, finalizeAuction
<1>3. Kept
  BY <1>2, AdvanceKeeps
<1> DEFINE packet == SnapshotFor(NoUser)
<1>4. packet \in Packet /\ OfNow(packet)
  BY <1>3, SnapshotTyped DEF Kept
<1>5. ByTimer /\ TellRoom(packet)
  BY DEF startAuction, finalizeAuction, ByTimer
<1> HIDE DEF packet
<1>6. Extended({packet})
  BY <1>1, <1>4, <1>5, TellRoomExtends
<1>7. RequestsFollow
  BY <1>5 DEF RequestsFollow, ByTimer, handlers
<1>8. ServerTyped' /\ up' \in [Socket -> Seq(Request)]
  BY <1>1, <1>2, <1>3, <1>5 DEF ServerTyped, TypeOK, Kept, ByTimer, handlers
<1>9. faults' \in 0..MaxFaults
  BY <1>1, <1>5, FaultTyped DEF ByTimer
<1>10. UNCHANGED <<connection, live, buffer, page, presses, who, shown>>
  BY <1>5 DEF ByTimer, page
<1>11. QED
  BY <1>2, <1>4, <1>6, <1>7, <1>8, <1>9, <1>10, ServerStep

LEMMA EndPassesKeeps ==
  ASSUME FInv, EndPasses
  PROVE  FInv'
<1>1. TypeOK
  BY DEF FInv
<1>2. UNCHANGED <<who, bids, version, told, room, handlers, network, page, presses, faults>>
  BY DEF EndPasses
<1>3. Advanced
  BY <1>1, <1>2 DEF Advanced, TypeOK
<1>4. RequestsFollow
  BY <1>2 DEF RequestsFollow, handlers, network
<1>5. Extended({})
  BY <1>1, <1>2 DEF Extended, TypeOK, network
<1>6. ServerTyped' /\ up' \in [Socket -> Seq(Request)] /\ faults' \in 0..MaxFaults
  BY <1>1 DEF ServerTyped, TypeOK, EndPasses, handlers, network
<1>7. UNCHANGED <<connection, live, buffer, page, presses, who, shown>>
  BY <1>2 DEF network, page
<1>8. QED
  BY <1>3, <1>4, <1>5, <1>6, <1>7, ServerStep

-----------------------------------------------------------------------------
(* Chat. *)

LEMMA ChatTyped ==
  ASSUME TypeOK, NEW c \in chatting, NEW sent \in BOOLEAN
  PROVE  LET answer == [event |-> "chatAnswer", message |-> c.message, sent |-> sent]
             packet == [event |-> "message", message |-> c.message]
         IN /\ c.message \in Message /\ c.socket \in Socket
            /\ answer \in Packet /\ OfNow(answer)
            /\ packet \in Packet /\ OfNow(packet)
<1>1. c.message \in Message /\ c.socket \in Socket
  BY DEF TypeOK
<1>2. QED
  BY <1>1 DEF Packet, OfNow

LEMMA handleChatSendKeeps ==
  ASSUME FInv, NEW c \in chatting, handleChatSend(c)
  PROVE  FInv'
<1>1. TypeOK /\ RequestsSound
  BY DEF FInv
<1> DEFINE answer == [event |-> "chatAnswer", message |-> c.message, sent |-> TRUE]
           packet == [event |-> "message", message |-> c.message]
<1>2. /\ c.message \in Message /\ c.socket \in Socket
      /\ answer \in Packet /\ OfNow(answer) /\ packet \in Packet /\ OfNow(packet)
  BY <1>1, ChatTyped
<1>3. TellThenAnswer(c.socket, packet, answer)
  BY DEF handleChatSend, TellMessage
<1> HIDE DEF answer, packet
<1>4. Extended({answer, packet})
  BY <1>1, <1>2, <1>3, TellThenAnswerExtends
<1>5. \A p \in {answer, packet} : OfNow(p)
  BY <1>2
<1>6. Advanced
  BY Still DEF handleChatSend
<1>7. RequestsFollow
  BY DEF RequestsFollow, handleChatSend
<1>8. told \in Seq(Message) /\ told' = Append(told, c.message) /\ told' \in Seq(Message)
  BY <1>1, <1>2 DEF TypeOK, handleChatSend
<1>9. ServerTyped' /\ up' \in [Socket -> Seq(Request)]
  BY <1>1, <1>8 DEF ServerTyped, TypeOK, handleChatSend, auction
<1>10. faults' \in 0..MaxFaults
  BY <1>1, FaultTyped DEF handleChatSend
<1>11. UNCHANGED <<connection, live, buffer, page, presses, who, shown>>
  BY DEF handleChatSend, page
<1>12. QED
  BY <1>4, <1>5, <1>6, <1>7, <1>9, <1>10, <1>11, ServerStep

LEMMA NotSentKeeps ==
  ASSUME FInv, NEW c \in chatting, RefuseMessage(c) \/ ChatFails(c)
  PROVE  FInv'
<1>1. TypeOK
  BY DEF FInv
<1>2. NotSent(c) /\ (Fault \/ UNCHANGED faults)
  BY DEF RefuseMessage, ChatFails
<1> DEFINE answer == [event |-> "chatAnswer", message |-> c.message, sent |-> FALSE]
<1>3. answer \in Packet /\ OfNow(answer)
  BY <1>1, ChatTyped
<1>4. Answer(c.socket, answer)
  BY <1>2 DEF NotSent
<1> HIDE DEF answer
<1>5. Extended({answer})
  BY <1>1, <1>3, <1>4, AnswerExtends
<1>6. Advanced
  BY <1>2, Still DEF NotSent
<1>7. RequestsFollow
  BY <1>2 DEF RequestsFollow, NotSent
<1>8. ServerTyped' /\ up' \in [Socket -> Seq(Request)]
  BY <1>1, <1>2 DEF ServerTyped, TypeOK, NotSent, auction
<1>9. faults' \in 0..MaxFaults
  BY <1>1, <1>2, FaultTyped
<1>10. UNCHANGED <<connection, live, buffer, page, presses, who, shown>>
  BY <1>2 DEF NotSent, page
<1>11. QED
  BY <1>3, <1>5, <1>6, <1>7, <1>8, <1>9, <1>10, ServerStep

-----------------------------------------------------------------------------
LEMMA InitHolds == Init => FInv
<1> SUFFICES ASSUME Init PROVE FInv
  OBVIOUS
<1>1. TypeOK
  <2>1. 0 \in 0..MaxConnections /\ 0 \in 0..MaxFaults
    OBVIOUS
  <2>2. /\ <<>> \in Seq(Bid) /\ <<>> \in Seq(Message) /\ <<>> \in Seq(Request)
        /\ <<>> \in Seq(Packet)
    OBVIOUS
  <2>3. QED
    BY <2>1, <2>2 DEF Init, TypeOK
<1>2. \A p \in Elements(<<>>) : FALSE
  BY DEF Elements
<1>3. RequestsSound
  BY <1>2 DEF Init, RequestsSound
<1>4. Dated(-1, 0)
  BY DEF Init, Dated, getMinimumNextBidMinor
<1>5. SnapshotsDated
  BY <1>2, <1>4 DEF Init, SnapshotsDated, NoSnapshot
<1>6. Ledger /\ SuggestionsAreInformed
  BY DEF Init, Ledger, SuggestionsAreInformed
<1>7. QED
  BY <1>1, <1>3, <1>5, <1>6 DEF FInv

LEMMA NextKeeps == FInv /\ [Next]_vars => FInv'
<1> SUFFICES ASSUME FInv, [Next]_vars PROVE FInv'
  OBVIOUS
<1>1. ASSUME NEW t \in Tab, Page(t)
      PROVE  FInv'
  BY <1>1, PressBidKeeps, PressSendKeeps, ConnectKeeps, DropKeeps, TimeoutKeeps, HearKeeps DEF Page
<1>2. ASSUME Server
      PROVE  FInv'
  BY <1>2, ReceiveKeeps, AnswerJoinKeeps, AcceptBidKeeps, BidRefusedKeeps, RefuseLateBidKeeps,
     TimerKeeps, EndPassesKeeps, handleChatSendKeeps, NotSentKeeps DEF Server
<1>3. CASE UNCHANGED vars
  <2>1. UNCHANGED <<who, auction, told>> /\ RequestsFollow /\ AnswersFollow
    BY <1>3 DEF vars, RequestsFollow, AnswersFollow, handlers, network, page
  <2>2. TypeOK'
    BY <1>3 DEF FInv, TypeOK, vars, auction, handlers, network, page
  <2>3. QED
    BY <2>1, <2>2, PageKeeps
<1>4. QED
  BY <1>1, <1>2, <1>3 DEF Next

\* Every suggestion, wherever it is, carries the price of a state that was
\* (buildSnapshot, useBidIntent, applyAcceptedBid).
THEOREM FormsInvariant == Spec => []FInv
<1>1. Init => FInv
  BY InitHolds
<1>2. FInv /\ [Next]_vars => FInv'
  BY NextKeeps
<1>3. QED
  BY <1>1, <1>2, PTL DEF Spec

\* A bid of the suggested amount is accepted only if its page knew the bid
\* before it (useBidIntent, placeBidInQueue).
THEOREM SuggestionsInformed == Spec => []SuggestionsAreInformed
<1>1. FInv => SuggestionsAreInformed
  BY DEF FInv
<1>2. QED
  BY <1>1, FormsInvariant, PTL

-----------------------------------------------------------------------------
(* The chat.  Lists of requests and the messages in them. *)

LEMMA TextsIn ==
  ASSUME NEW list, NEW m
  PROVE  m \in Texts(list) <=> \E i \in DOMAIN list : list[i].event = "chat" /\ list[i].message = m
  BY DEF Texts, Elements

LEMMA TextsTyped ==
  ASSUME NEW list \in Seq(Request)
  PROVE  Texts(list) \subseteq Message
<1>1. \A p \in Request : p.event = "chat" => p.message \in Message
  BY DEF Request, BidIntent
<1>2. QED
  BY <1>1, TextsIn

LEMMA TextsAppended ==
  ASSUME NEW list \in Seq(Request), NEW p \in Request
  PROVE  /\ p.event # "chat" => Texts(Append(list, p)) = Texts(list)
         /\ p.event = "chat" => Texts(Append(list, p)) = Texts(list) \union {p.message}
         /\ NoneTwice(list) /\ (p.event = "chat" => p.message \notin Texts(list))
              => NoneTwice(Append(list, p))
<1> DEFINE longer == Append(list, p)
           n == Len(list) + 1
<1>1. /\ DOMAIN list = 1..Len(list) /\ DOMAIN longer = 1..n /\ longer[n] = p
      /\ n \in Nat /\ Len(list) \in Nat
      /\ \A i \in 1..Len(list) : longer[i] = list[i]
  OBVIOUS
<1> HIDE DEF longer
<1>2. \A i \in 1..n : i \in 1..Len(list) \/ i = n
  BY <1>1
<1>3. \A i \in 1..Len(list) : i \in 1..n
  BY <1>1
<1>4. n \in 1..n
  BY <1>1
<1>5. ASSUME NEW m
      PROVE  m \in Texts(longer) <=> m \in Texts(list) \/ (p.event = "chat" /\ p.message = m)
  <2>1. /\ m \in Texts(longer) <=> \E i \in DOMAIN longer : longer[i].event = "chat" /\ longer[i].message = m
        /\ m \in Texts(list) <=> \E i \in DOMAIN list : list[i].event = "chat" /\ list[i].message = m
    BY TextsIn
  <2>2. QED
    BY <1>1, <1>2, <1>3, <1>4, <2>1
<1>6. ASSUME NoneTwice(list), p.event = "chat" => p.message \notin Texts(list)
      PROVE  NoneTwice(longer)
  <2>1. \A i \in 1..Len(list) : list[i].event = "chat" => list[i].message \in Texts(list)
    BY <1>1, TextsIn
  <2>2. SUFFICES ASSUME NEW i \in 1..n, NEW j \in 1..n, longer[i].event = "chat",
                        longer[j].event = "chat", longer[i].message = longer[j].message
                 PROVE  i = j
    BY <1>1 DEF NoneTwice
  <2>3. CASE i = n \/ j = n
    BY <1>1, <1>2, <1>6, <2>1, <2>2, <2>3
  <2>4. CASE i # n /\ j # n
    BY <1>1, <1>2, <1>6, <2>2, <2>4 DEF NoneTwice
  <2>5. QED
    BY <2>3, <2>4
<1>7. QED
  BY <1>5, <1>6 DEF longer

LEMMA TextsShortened ==
  ASSUME NEW list \in Seq(Request), list # <<>>
  PROVE  /\ Texts(Tail(list)) \subseteq Texts(list)
         /\ Head(list).event = "chat" => Head(list).message \in Texts(list)
         /\ NoneTwice(list) => NoneTwice(Tail(list))
         /\ NoneTwice(list) /\ Head(list).event = "chat" => Head(list).message \notin Texts(Tail(list))
<1> DEFINE rest == Tail(list)
<1>1. /\ Head(list) = list[1] /\ 1 \in DOMAIN list
      /\ \A i \in DOMAIN rest : i + 1 \in DOMAIN list /\ rest[i] = list[i + 1] /\ i + 1 # 1 /\ i \in Int
  OBVIOUS
<1> HIDE DEF rest
<1>2. Texts(rest) \subseteq Texts(list)
  BY <1>1, TextsIn
<1>3. Head(list).event = "chat" => Head(list).message \in Texts(list)
  BY <1>1, TextsIn
<1>4. ASSUME NoneTwice(list)
      PROVE  NoneTwice(rest)
  <2>1. SUFFICES ASSUME NEW i \in DOMAIN rest, NEW j \in DOMAIN rest, rest[i].event = "chat",
                        rest[j].event = "chat", rest[i].message = rest[j].message
                 PROVE  i = j
    BY DEF NoneTwice
  <2>2. i + 1 = j + 1
    BY <1>1, <1>4, <2>1 DEF NoneTwice
  <2>3. QED
    BY <1>1, <2>2
<1>5. ASSUME NoneTwice(list), Head(list).event = "chat", Head(list).message \in Texts(rest)
      PROVE  FALSE
  <2>1. PICK i \in DOMAIN rest : rest[i].event = "chat" /\ rest[i].message = Head(list).message
    BY <1>5, TextsIn
  <2>2. i + 1 \in DOMAIN list /\ 1 \in DOMAIN list /\ list[i + 1] = rest[i] /\ list[1] = Head(list)
    BY <1>1
  <2>3. i + 1 = 1
    BY <1>5, <2>1, <2>2 DEF NoneTwice
  <2>4. QED
    BY <1>1, <2>3
<1>6. QED
  BY <1>2, <1>3, <1>4, <1>5 DEF rest

LEMMA TextsRemoved ==
  ASSUME NEW list \in Seq(Request), NEW k \in DOMAIN list
  PROVE  LET rest == SubSeq(list, 1, k - 1) \o SubSeq(list, k + 1, Len(list))
         IN /\ Texts(rest) \subseteq Texts(list)
            /\ NoneTwice(list) => NoneTwice(rest)
<1> DEFINE before == SubSeq(list, 1, k - 1)
           after == SubSeq(list, k + 1, Len(list))
           rest == before \o after
           at(i) == IF i < k THEN i ELSE i + 1
<1>1. k \in 1..Len(list) /\ Len(list) \in Nat
  OBVIOUS
<1>2. /\ before \in Seq(Request) /\ Len(before) = k - 1
      /\ \A i \in 1..(k - 1) : before[i] = list[i]
  BY <1>1
<1>3. /\ after \in Seq(Request) /\ Len(after) = Len(list) - k
      /\ \A i \in 1..(Len(list) - k) : after[i] = list[i + k]
  BY <1>1
<1>4. DOMAIN rest = 1..(Len(list) - 1)
  <2>1. \A a, b \in Seq(Request) : DOMAIN (a \o b) = 1..(Len(a) + Len(b))
    OBVIOUS
  <2> HIDE DEF before, after
  <2>2. DOMAIN rest = 1..(Len(before) + Len(after))
    BY <1>2, <1>3, <2>1
  <2>3. QED
    BY <1>1, <1>2, <1>3, <2>2
<1>5. ASSUME NEW i \in 1..(Len(list) - 1)
      PROVE  at(i) \in DOMAIN list /\ rest[i] = list[at(i)] /\ i \in Int
  <2> DEFINE o == i - (k - 1)
  <2>1. CASE i < k
    <3>1. rest[i] = before[i]
      <4> HIDE DEF before, after
      <4>1. QED
        BY <1>1, <1>2, <1>3, <2>1
    <3>2. before[i] = list[i] /\ i \in DOMAIN list
      <4> HIDE DEF before, after
      <4>1. QED
        BY <1>1, <1>2, <2>1
    <3> HIDE DEF rest, before
    <3>3. QED
      BY <2>1, <3>1, <3>2
  <2>2. CASE ~(i < k)
    <3>1. o \in 1..(Len(list) - k) /\ o + k = i + 1 /\ i + 1 \in DOMAIN list
      <4> HIDE DEF rest, before, after
      <4>1. k \in Int /\ i \in Int /\ k <= i /\ i <= Len(list) - 1 /\ Len(list) \in Int
        BY <1>1, <2>2
      <4>2. QED
        BY <1>1, <4>1
    <3>2. rest[i] = after[o]
      <4> HIDE DEF before, after
      <4>1. QED
        BY <1>1, <1>2, <1>3, <2>2
    <3> HIDE DEF rest, after, o
    <3>3. after[o] = list[i + 1]
      BY <1>3, <3>1
    <3>4. QED
      BY <2>2, <3>1, <3>2, <3>3
  <2>3. QED
    BY <2>1, <2>2
<1>6. \A i, j \in Int : at(i) = at(j) => i = j
  BY <1>1
<1> HIDE DEF rest, at
<1>7. Texts(rest) \subseteq Texts(list)
  BY <1>4, <1>5, TextsIn
<1>8. NoneTwice(list) => NoneTwice(rest)
  <2>1. SUFFICES ASSUME NoneTwice(list), NEW i \in DOMAIN rest, NEW j \in DOMAIN rest,
                        rest[i].event = "chat", rest[j].event = "chat",
                        rest[i].message = rest[j].message
                 PROVE  i = j
    BY DEF NoneTwice
  <2>2. at(i) = at(j)
    BY <1>4, <1>5, <2>1 DEF NoneTwice
  <2>3. QED
    BY <1>4, <1>5, <1>6, <2>2
<1>9. QED
  BY <1>7, <1>8 DEF rest

-----------------------------------------------------------------------------
(* One place for every message. *)

\* What is known of the messages and the numbers of the presses.
Numbers ==
  /\ presses \in [Tab -> Nat]
  /\ \A m \in Message : m.tab \in Tab /\ m.press \in Nat /\ m.press > 0
  /\ \A t \in Tab : Texts(buffer[t]) \subseteq Message
  /\ \A s \in Socket : Texts(up[s]) \subseteq Message
  /\ \A c \in chatting : c.message \in Message /\ c.socket \in Socket
  /\ Elements(told) \subseteq Message

LEMMA NumbersTyped == TypeOK => Numbers
<1> SUFFICES ASSUME TypeOK PROVE Numbers
  OBVIOUS
<1>1. \A m \in Message : m.tab \in Tab /\ m.press \in Nat /\ m.press > 0
  BY DEF Message, Press
<1>2. ASSUME NEW t \in Tab PROVE Texts(buffer[t]) \subseteq Message
  <2>1. buffer[t] \in Seq(Request)
    BY DEF TypeOK
  <2>2. QED
    BY <2>1, TextsTyped
<1>3. ASSUME NEW s \in Socket PROVE Texts(up[s]) \subseteq Message
  <2>1. up[s] \in Seq(Request)
    BY DEF TypeOK
  <2>2. QED
    BY <2>1, TextsTyped
<1>4. Elements(told) \subseteq Message
  <2>1. told \in Seq(Message)
    BY DEF TypeOK
  <2>2. QED
    BY <2>1, ElementsTyped
<1>5. QED
  BY <1>1, <1>2, <1>3, <1>4 DEF Numbers, TypeOK

\* Messages only disappear.
LEMMA FewerInOnePlace ==
  ASSUME TypeOK, OnePlace,
         \A t \in Tab : NoneTwice(buffer'[t]) /\ Texts(buffer'[t]) \subseteq Texts(buffer[t]),
         \A s \in Socket : NoneTwice(up'[s]) /\ Texts(up'[s]) \subseteq Texts(up[s]),
         chatting' \subseteq chatting, told' = told,
         presses' \in [Tab -> Nat], \A t \in Tab : presses'[t] >= presses[t]
  PROVE  OnePlace'
<1>1. Numbers
  BY NumbersTyped
<1>2. \A m \in Message : m.press <= presses[m.tab] => m.press <= presses'[m.tab]
  BY <1>1 DEF Numbers
<1>3. \A m : m \notin Handled \union Elements(told) => m \notin Handled' \union Elements(told')
  BY DEF Handled
<1>4. ASSUME NEW t \in Tab, NEW m \in Texts(buffer'[t])
      PROVE  /\ m.press <= presses'[m.tab] /\ m \notin Handled' \union Elements(told')
             /\ \A s \in Socket : m \notin Texts(up'[s])
  BY <1>1, <1>2, <1>3 DEF OnePlace, Numbers
<1>5. ASSUME NEW s \in Socket, NEW m \in Texts(up'[s])
      PROVE  /\ m.press <= presses'[m.tab] /\ m \notin Handled' \union Elements(told')
             /\ \A r \in Socket \ {s} : m \notin Texts(up'[r])
  BY <1>1, <1>2, <1>3 DEF OnePlace, Numbers
<1>6. \A c \in chatting' :
        /\ c.message.press <= presses'[c.message.tab] /\ c.message \notin Elements(told')
        /\ \A d \in chatting' : c.message = d.message => c = d
  BY <1>1, <1>2 DEF OnePlace, Numbers
<1>7. /\ \A m \in Elements(told') : m.press <= presses'[m.tab]
      /\ \A i, j \in DOMAIN told' : told'[i] = told'[j] => i = j
  BY <1>1, <1>2 DEF OnePlace, Numbers
<1>8. QED
  BY <1>4, <1>5, <1>6, <1>7 DEF OnePlace

\* What a page emits goes to one list.
LEMMA Emitted ==
  ASSUME TypeOK, NEW t \in Tab, NEW packet \in Request, Emit(t, packet),
         live[t] => SocketOf(t) \in Socket
  PROVE  \/ /\ live[t] /\ buffer' = buffer
            /\ up'[SocketOf(t)] = Append(up[SocketOf(t)], packet)
            /\ \A s \in Socket : s # SocketOf(t) => up'[s] = up[s]
         \/ /\ ~live[t] /\ up' = up
            /\ buffer'[t] = Append(buffer[t], packet)
            /\ \A x \in Tab : x # t => buffer'[x] = buffer[x]
<1>1. buffer \in [Tab -> Seq(Request)] /\ up \in [Socket -> Seq(Request)]
  BY DEF TypeOK
<1>2. QED
  BY <1>1 DEF Emit

LEMMA PressBidOnePlace ==
  ASSUME TypeOK, OnePlace, JoinsFirst, NEW t \in Tab, NEW packet \in Request, Emit(t, packet),
         packet.event # "chat", chatting' = chatting, told' = told,
         presses' \in [Tab -> Nat], \A x \in Tab : presses'[x] >= presses[x]
  PROVE  OnePlace'
<1>1. /\ \A x \in Tab : buffer[x] \in Seq(Request) /\ NoneTwice(buffer[x])
      /\ \A s \in Socket : up[s] \in Seq(Request) /\ NoneTwice(up[s])
      /\ live[t] => SocketOf(t) \in Socket
  BY DEF TypeOK, OnePlace, JoinsFirst
<1>2. \A list \in Seq(Request) :
        /\ Texts(Append(list, packet)) = Texts(list)
        /\ NoneTwice(list) => NoneTwice(Append(list, packet))
  BY TextsAppended
<1>3. /\ \A x \in Tab : NoneTwice(buffer'[x]) /\ Texts(buffer'[x]) \subseteq Texts(buffer[x])
      /\ \A s \in Socket : NoneTwice(up'[s]) /\ Texts(up'[s]) \subseteq Texts(up[s])
  BY <1>1, <1>2, Emitted
<1>4. QED
  BY <1>3, FewerInOnePlace

\* A new message has a new number.
LEMMA PressSendOnePlace ==
  ASSUME TypeOK, OnePlace, JoinsFirst, NEW t \in Tab, PressSend(t)
  PROVE  OnePlace'
<1> DEFINE m == [tab |-> t, press |-> presses[t] + 1, kept |-> ~live[t]]
           packet == [event |-> "chat", press |-> presses[t] + 1, message |-> m]
<1>1. Numbers
  BY NumbersTyped
<1>2. /\ m \in Message /\ m.tab = t /\ m.press = presses[t] + 1
      /\ packet \in Request /\ packet.event = "chat" /\ packet.message = m
  <2>1. presses[t] + 1 \in Press
    BY <1>1 DEF Numbers, Press
  <2>2. (~live[t]) \in BOOLEAN
    OBVIOUS
  <2>3. QED
    BY <2>1, <2>2 DEF Message, Request
<1>3. Emit(t, packet) /\ chatting' = chatting /\ told' = told
  BY DEF PressSend, handlers
<1>4. presses' = [presses EXCEPT ![t] = presses[t] + 1]
  BY DEF PressSend, Count
<1> HIDE DEF m, packet
<1>5. presses' \in [Tab -> Nat] /\ m.press <= presses'[m.tab]
      /\ \A n \in Message : n.press <= presses[n.tab] => n # m /\ n.press <= presses'[n.tab]
  BY <1>1, <1>2, <1>4 DEF Numbers
<1>6. /\ \A x \in Tab : buffer[x] \in Seq(Request) /\ NoneTwice(buffer[x])
      /\ \A s \in Socket : up[s] \in Seq(Request) /\ NoneTwice(up[s])
      /\ live[t] => SocketOf(t) \in Socket
  BY DEF TypeOK, OnePlace, JoinsFirst
<1>7. /\ \A x \in Tab : m \notin Texts(buffer[x])
      /\ \A s \in Socket : m \notin Texts(up[s])
      /\ m \notin Handled /\ m \notin Elements(told)
  BY <1>1, <1>5 DEF OnePlace, Numbers, Handled
<1>8. \A list \in Seq(Request) :
        /\ Texts(Append(list, packet)) = Texts(list) \union {m}
        /\ NoneTwice(list) /\ m \notin Texts(list) => NoneTwice(Append(list, packet))
  BY <1>2, TextsAppended
<1>9. /\ \A x \in Tab : NoneTwice(buffer'[x]) /\ Texts(buffer'[x]) \subseteq Texts(buffer[x]) \union {m}
      /\ \A s \in Socket : NoneTwice(up'[s]) /\ Texts(up'[s]) \subseteq Texts(up[s]) \union {m}
      /\ \A x \in Tab, s \in Socket : m \notin Texts(buffer'[x]) \/ m \notin Texts(up'[s])
      /\ \A r, s \in Socket : m \in Texts(up'[r]) /\ m \in Texts(up'[s]) => r = s
  <2>1. CASE live[t]
    <3>1. /\ buffer' = buffer /\ SocketOf(t) \in Socket
          /\ up'[SocketOf(t)] = Append(up[SocketOf(t)], packet)
          /\ \A s \in Socket : s # SocketOf(t) => up'[s] = up[s]
      BY <1>2, <1>3, <1>6, <2>1, Emitted
    <3>2. /\ NoneTwice(up'[SocketOf(t)])
          /\ Texts(up'[SocketOf(t)]) = Texts(up[SocketOf(t)]) \union {m}
      BY <1>6, <1>7, <1>8, <3>1
    <3>3. QED
      BY <1>6, <1>7, <3>1, <3>2
  <2>2. CASE ~live[t]
    <3>1. /\ up' = up /\ buffer'[t] = Append(buffer[t], packet)
          /\ \A x \in Tab : x # t => buffer'[x] = buffer[x]
      BY <1>2, <1>3, <1>6, <2>2, Emitted
    <3>2. NoneTwice(buffer'[t]) /\ Texts(buffer'[t]) = Texts(buffer[t]) \union {m}
      BY <1>6, <1>7, <1>8, <3>1
    <3>3. QED
      BY <1>6, <1>7, <3>1, <3>2
  <2>3. QED
    BY <2>1, <2>2
<1>10. Handled' = Handled
  BY <1>3 DEF Handled
<1>11. ASSUME NEW x \in Tab
       PROVE  /\ NoneTwice(buffer'[x])
              /\ \A n \in Texts(buffer'[x]) :
                   /\ n.press <= presses'[n.tab] /\ n \notin Handled' \union Elements(told')
                   /\ \A s \in Socket : n \notin Texts(up'[s])
  <2>1. \A n \in Texts(buffer[x]) :
          /\ n \in Message /\ n.press <= presses[n.tab] /\ n \notin Handled \union Elements(told)
          /\ \A s \in Socket : n \notin Texts(up[s])
    BY <1>1 DEF OnePlace, Numbers
  <2>2. \A s \in Socket : \A n \in Texts(up'[s]) : n \in Texts(up[s]) \/ n = m
    BY <1>9
  <2>3. ASSUME NEW n \in Texts(buffer'[x])
        PROVE  /\ n.press <= presses'[n.tab] /\ n \notin Handled' \union Elements(told')
               /\ \A s \in Socket : n \notin Texts(up'[s])
    <3>1. CASE n = m
      BY <1>3, <1>5, <1>7, <1>9, <1>10, <2>3, <3>1
    <3>2. CASE n # m
      BY <1>3, <1>5, <1>9, <1>10, <2>1, <2>2, <2>3, <3>2
    <3>3. QED
      BY <3>1, <3>2
  <2>4. QED
    BY <1>9, <2>3
<1>12. ASSUME NEW s \in Socket
       PROVE  /\ NoneTwice(up'[s])
              /\ \A n \in Texts(up'[s]) :
                   /\ n.press <= presses'[n.tab] /\ n \notin Handled' \union Elements(told')
                   /\ \A r \in Socket \ {s} : n \notin Texts(up'[r])
  <2>1. \A n \in Texts(up[s]) :
          /\ n \in Message /\ n.press <= presses[n.tab] /\ n \notin Handled \union Elements(told)
          /\ \A r \in Socket \ {s} : n \notin Texts(up[r])
    BY <1>1 DEF OnePlace, Numbers
  <2>2. \A r \in Socket : \A n \in Texts(up'[r]) : n \in Texts(up[r]) \/ n = m
    BY <1>9
  <2>3. ASSUME NEW n \in Texts(up'[s])
        PROVE  /\ n.press <= presses'[n.tab] /\ n \notin Handled' \union Elements(told')
               /\ \A r \in Socket \ {s} : n \notin Texts(up'[r])
    <3>1. CASE n = m
      BY <1>3, <1>5, <1>7, <1>9, <1>10, <2>3, <3>1
    <3>2. CASE n # m
      BY <1>3, <1>5, <1>10, <2>1, <2>2, <2>3, <3>2
    <3>3. QED
      BY <3>1, <3>2
  <2>4. QED
    BY <1>9, <2>3
<1>13. \A c \in chatting' :
        /\ c.message.press <= presses'[c.message.tab] /\ c.message \notin Elements(told')
        /\ \A d \in chatting' : c.message = d.message => c = d
  BY <1>1, <1>3, <1>5 DEF OnePlace, Numbers
<1>14. /\ \A n \in Elements(told') : n.press <= presses'[n.tab]
       /\ \A i, j \in DOMAIN told' : told'[i] = told'[j] => i = j
  BY <1>1, <1>3, <1>5 DEF OnePlace, Numbers
<1>15. QED
  BY <1>11, <1>12, <1>13, <1>14 DEF OnePlace

LEMMA ConnectOnePlace ==
  ASSUME TypeOK, RequestsSound, OnePlace, NEW t \in Tab, Connect(t)
  PROVE  OnePlace'
<1> DEFINE n == <<t, connection[t] + 1>>
           join == [event |-> "join", press |-> 0]
<1>1. Numbers
  BY NumbersTyped
<1>2. buffer \in [Tab -> Seq(Request)] /\ up \in [Socket -> Seq(Request)] /\ n \in Socket
  BY DEF TypeOK, Connect
<1>3. join \in Request /\ join.event = "join"
  BY DEF Request
<1>4. /\ up' = [up EXCEPT ![n] = Append(buffer[t], join)]
      /\ buffer' = [buffer EXCEPT ![t] = <<>>]
      /\ UNCHANGED <<chatting, told, presses>>
  BY DEF Connect, handlers
<1> HIDE DEF n, join
<1>5. /\ up'[n] = Append(buffer[t], join) /\ buffer'[t] = <<>>
      /\ \A s \in Socket : s # n => up'[s] = up[s]
      /\ \A x \in Tab : x # t => buffer'[x] = buffer[x]
  BY <1>2, <1>4
<1>6. Texts(up'[n]) = Texts(buffer[t]) /\ NoneTwice(up'[n])
  <2>1. buffer[t] \in Seq(Request) /\ NoneTwice(buffer[t])
    BY <1>2 DEF OnePlace
  <2>2. QED
    BY <1>3, <1>5, <2>1, TextsAppended
<1>7. Texts(buffer'[t]) = {} /\ NoneTwice(buffer'[t])
  BY <1>5 DEF Texts, Elements, NoneTwice
<1>8. Handled' = Handled
  BY <1>4 DEF Handled
<1>9. ASSUME NEW x \in Tab
      PROVE  /\ NoneTwice(buffer'[x])
             /\ \A m \in Texts(buffer'[x]) :
                  /\ m.press <= presses'[m.tab] /\ m \notin Handled' \union Elements(told')
                  /\ \A s \in Socket : m \notin Texts(up'[s])
  <2>1. CASE x = t
    BY <1>7, <2>1
  <2>2. CASE x # t
    <3>1. \A m \in Texts(buffer[x]) : m \notin Texts(buffer[t])
      <4>1. \A y \in Tab : \A m \in Texts(buffer[y]) : m.tab = y
        BY DEF Texts, RequestsSound, Sound
      <4>2. QED
        BY <2>2, <4>1
    <3>2. QED
      BY <1>4, <1>5, <1>6, <1>8, <2>2, <3>1 DEF OnePlace
  <2>3. QED
    BY <2>1, <2>2
<1>10. ASSUME NEW s \in Socket
       PROVE  /\ NoneTwice(up'[s])
              /\ \A m \in Texts(up'[s]) :
                   /\ m.press <= presses'[m.tab] /\ m \notin Handled' \union Elements(told')
                   /\ \A r \in Socket \ {s} : m \notin Texts(up'[r])
  <2>1. CASE s = n
    BY <1>4, <1>5, <1>6, <1>8, <2>1 DEF OnePlace
  <2>2. CASE s # n
    <3>1. /\ up'[s] = up[s] /\ NoneTwice(up[s])
          /\ \A m \in Texts(up[s]) :
               /\ m.press <= presses[m.tab] /\ m \notin Handled \union Elements(told)
               /\ m \notin Texts(buffer[t])
               /\ \A r \in Socket \ {s} : m \notin Texts(up[r])
      BY <1>5, <2>2 DEF OnePlace
    <3>2. \A r \in Socket : r = n \/ Texts(up'[r]) = Texts(up[r])
      BY <1>5
    <3>3. QED
      BY <1>4, <1>6, <1>8, <3>1, <3>2
  <2>3. QED
    BY <2>1, <2>2
<1>11. QED
  BY <1>4, <1>9, <1>10 DEF OnePlace

\* A message goes to its handler.
LEMMA ReceiveOnePlace ==
  ASSUME TypeOK, OnePlace, NEW s \in Socket, Receive(s)
  PROVE  OnePlace'
<1> DEFINE p == Head(up[s])
           m == p.message
<1>1. Numbers
  BY NumbersTyped
<1>2. up \in [Socket -> Seq(Request)] /\ up[s] # <<>> /\ NoneTwice(up[s])
  BY DEF TypeOK, Receive, OnePlace
<1>3. /\ up' = [up EXCEPT ![s] = Tail(up[s])]
      /\ UNCHANGED <<buffer, told, presses>>
  BY DEF Receive
<1>4. /\ NoneTwice(up'[s]) /\ Texts(up'[s]) \subseteq Texts(up[s])
      /\ \A r \in Socket : r # s => up'[r] = up[r]
      /\ p.event = "chat" => m \in Texts(up[s]) /\ m \notin Texts(up'[s])
  <2>1. up'[s] = Tail(up[s]) /\ up[s] \in Seq(Request)
    BY <1>2, <1>3
  <2>2. \A r \in Socket : r # s => up'[r] = up[r]
    BY <1>2, <1>3
  <2>3. QED
    BY <1>2, <2>1, <2>2, TextsShortened
<1>5. \/ p.event # "chat" /\ chatting' = chatting
      \/ p.event = "chat" /\ chatting' = chatting \union {[socket |-> s, message |-> m]}
  BY DEF Receive
<1> HIDE DEF p, m
<1>6. CASE p.event # "chat" /\ chatting' = chatting
  <2>1. \A r \in Socket : NoneTwice(up'[r]) /\ Texts(up'[r]) \subseteq Texts(up[r])
    BY <1>4 DEF OnePlace
  <2>2. \A x \in Tab : NoneTwice(buffer'[x]) /\ Texts(buffer'[x]) \subseteq Texts(buffer[x])
    BY <1>3 DEF OnePlace
  <2>3. presses' \in [Tab -> Nat] /\ \A x \in Tab : presses'[x] >= presses[x]
    BY <1>1, <1>3 DEF Numbers
  <2>4. QED
    BY <1>3, <1>6, <2>1, <2>2, <2>3, FewerInOnePlace
<1>7. CASE p.event = "chat" /\ chatting' = chatting \union {[socket |-> s, message |-> m]}
  <2> DEFINE c0 == [socket |-> s, message |-> m]
  <2>1. m \in Texts(up[s]) /\ m \notin Texts(up'[s])
    BY <1>4, <1>7
  <2>2. /\ m.press <= presses[m.tab] /\ m \notin Handled \union Elements(told)
        /\ \A x \in Tab : m \notin Texts(buffer[x])
        /\ \A r \in Socket : m \notin Texts(up'[r])
    BY <1>4, <2>1 DEF OnePlace
  <2>3. c0.message = m /\ chatting' = chatting \union {c0}
    BY <1>7
  <2> HIDE DEF c0
  <2>4. Handled' = Handled \union {m}
    BY <2>3 DEF Handled
  <2>5. \A x \in Tab :
          /\ NoneTwice(buffer'[x])
          /\ \A n \in Texts(buffer'[x]) :
               /\ n.press <= presses'[n.tab] /\ n \notin Handled' \union Elements(told')
               /\ \A r \in Socket : n \notin Texts(up'[r])
    BY <1>3, <1>4, <2>2, <2>4 DEF OnePlace
  <2>6. ASSUME NEW r \in Socket
        PROVE  /\ NoneTwice(up'[r])
               /\ \A n \in Texts(up'[r]) :
                    /\ n.press <= presses'[n.tab] /\ n \notin Handled' \union Elements(told')
                    /\ \A q \in Socket \ {r} : n \notin Texts(up'[q])
    <3>1. \A q \in Socket : Texts(up'[q]) \subseteq Texts(up[q])
      BY <1>4
    <3>2. NoneTwice(up'[r])
      BY <1>4 DEF OnePlace
    <3>3. QED
      BY <1>3, <2>2, <2>4, <3>1, <3>2 DEF OnePlace
  <2>7. \A c \in chatting : c.message # m
    BY <2>2 DEF Handled
  <2>8. \A c \in chatting' :
          /\ c.message.press <= presses'[c.message.tab] /\ c.message \notin Elements(told')
          /\ \A d \in chatting' : c.message = d.message => c = d
    BY <1>3, <2>2, <2>3, <2>7 DEF OnePlace
  <2>9. QED
    BY <1>3, <2>5, <2>6, <2>8 DEF OnePlace
<1>8. QED
  BY <1>5, <1>6, <1>7

\* And from there to the room.
LEMMA TellOnePlace ==
  ASSUME TypeOK, OnePlace, NEW c \in chatting, handleChatSend(c)
  PROVE  OnePlace'
<1> DEFINE m == c.message
<1>1. Numbers
  BY NumbersTyped
<1>2. /\ chatting' = chatting \ {c} /\ told' = Append(told, m)
      /\ UNCHANGED <<buffer, up, presses>>
  BY DEF handleChatSend
<1>3. /\ m.press <= presses[m.tab] /\ m \notin Elements(told)
      /\ \A d \in chatting' : d.message # m
      /\ m \in Handled
  BY <1>2 DEF OnePlace, Handled
<1>4. m \in Message /\ told \in Seq(Message)
  BY <1>1 DEF Numbers, TypeOK
<1> HIDE DEF m
<1>5. /\ \A n \in Elements(told') : n \in Elements(told) \/ n = m
      /\ \A i, j \in DOMAIN told' : told'[i] = told'[j] => i = j
  <2> DEFINE k == Len(told) + 1
  <2>1. /\ DOMAIN told' = 1..k /\ DOMAIN told = 1..Len(told) /\ told'[k] = m
        /\ \A i \in 1..Len(told) : told'[i] = told[i]
        /\ \A i \in 1..k : i \in 1..Len(told) \/ i = k
    BY <1>2, <1>4
  <2>2. \A i \in 1..Len(told) : told[i] # m
    BY <1>3, <2>1 DEF Elements
  <2>3. \A i, j \in 1..Len(told) : told[i] = told[j] => i = j
    BY <2>1 DEF OnePlace
  <2> HIDE DEF k
  <2>4. \A i, j \in DOMAIN told' : told'[i] = told'[j] => i = j
    BY <2>1, <2>2, <2>3
  <2>5. \A n \in Elements(told') : n \in Elements(told) \/ n = m
    BY <1>2, <1>4, Appended
  <2>6. QED
    BY <2>4, <2>5
<1>6. \A n : n \notin Handled \union Elements(told) => n \notin Handled' \union Elements(told')
  BY <1>2, <1>3, <1>5 DEF Handled
<1>7. \A x \in Tab :
        /\ NoneTwice(buffer'[x])
        /\ \A n \in Texts(buffer'[x]) :
             /\ n.press <= presses'[n.tab] /\ n \notin Handled' \union Elements(told')
             /\ \A r \in Socket : n \notin Texts(up'[r])
  BY <1>2, <1>6 DEF OnePlace
<1>8. \A s \in Socket :
        /\ NoneTwice(up'[s])
        /\ \A n \in Texts(up'[s]) :
             /\ n.press <= presses'[n.tab] /\ n \notin Handled' \union Elements(told')
             /\ \A r \in Socket \ {s} : n \notin Texts(up'[r])
  BY <1>2, <1>6 DEF OnePlace
<1>9. \A d \in chatting' :
        /\ d.message.press <= presses'[d.message.tab] /\ d.message \notin Elements(told')
        /\ \A e \in chatting' : d.message = e.message => d = e
  BY <1>2, <1>3, <1>5 DEF OnePlace
<1>10. \A n \in Elements(told') : n.press <= presses'[n.tab]
  BY <1>2, <1>3, <1>5 DEF OnePlace
<1>11. QED
  BY <1>5, <1>7, <1>8, <1>9, <1>10 DEF OnePlace

-----------------------------------------------------------------------------
(* The join goes first. *)

LEMMA FewerJoinFirst ==
  ASSUME JoinsFirst, UNCHANGED <<connection, room, up>>,
         \A t \in Tab : live'[t] => live[t],
         \A t \in Tab : Texts(buffer'[t]) \subseteq Texts(buffer[t]),
         chatting' \subseteq chatting
  PROVE  JoinsFirst'
<1>1. \A t \in Tab : SocketOf(t)' = SocketOf(t)
  BY DEF SocketOf
<1>2. \A t \in Tab : live'[t] =>
        /\ SocketOf(t)' \in Socket
        /\ SocketOf(t)' \in room' \/ \E p \in Elements(up'[SocketOf(t)']) : p.event = "join"
  BY <1>1 DEF JoinsFirst
<1>3. \A s \in Socket : \A i \in DOMAIN up'[s] :
        up'[s][i].event = "chat" /\ ~up'[s][i].message.kept => JoinBefore(s, i)'
  BY DEF JoinsFirst, JoinBefore
<1>4. /\ \A t \in Tab : \A m \in Texts(buffer'[t]) : m.kept
      /\ \A c \in chatting' : c.message.kept \/ c.socket \in room'
  BY DEF JoinsFirst
<1>5. QED
  BY <1>2, <1>3, <1>4 DEF JoinsFirst

LEMMA EmitJoinsFirst ==
  ASSUME TypeOK, JoinsFirst, NEW t \in Tab, NEW packet \in Request, Emit(t, packet),
         packet.event = "chat" => packet.message.kept \/ live[t],
         UNCHANGED <<connection, live, room, chatting>>
  PROVE  JoinsFirst'
<1>1. /\ \A x \in Tab : buffer[x] \in Seq(Request)
      /\ \A s \in Socket : up[s] \in Seq(Request)
  BY DEF TypeOK
<1>2. \A x \in Tab : SocketOf(x)' = SocketOf(x)
  BY DEF SocketOf
<1>3. CASE live[t]
  <2>0. PICK s \in Socket : s = SocketOf(t)
    BY <1>3 DEF JoinsFirst
  <2> DEFINE n == Len(up[s]) + 1
  <2>1. /\ buffer' = buffer
        /\ up'[s] = Append(up[s], packet)
        /\ \A r \in Socket : r # s => up'[r] = up[r]
        /\ s \in room \/ \E p \in Elements(up[s]) : p.event = "join"
    BY <1>3, <2>0, Emitted DEF JoinsFirst
  <2>2. /\ DOMAIN up'[s] = 1..n /\ DOMAIN up[s] = 1..Len(up[s]) /\ up'[s][n] = packet
        /\ \A i \in 1..Len(up[s]) : up'[s][i] = up[s][i] /\ i < n /\ i \in 1..n
        /\ \A i \in 1..n : i \in 1..Len(up[s]) \/ i = n
    BY <1>1, <2>1
  <2> HIDE DEF n
  <2>3. \A r \in Socket : \A i \in DOMAIN up[r] : i \in DOMAIN up'[r] /\ up'[r][i] = up[r][i]
    BY <2>1, <2>2
  <2>4. \A r \in Socket : \A i : JoinBefore(r, i) => JoinBefore(r, i)'
    BY <2>3 DEF JoinBefore
  <2>5. s \in room' \/ \E j \in DOMAIN up'[s] : j < n /\ up'[s][j].event = "join"
    <3>1. s \in room \/ \E i \in DOMAIN up[s] : up[s][i].event = "join"
      BY <2>1 DEF Elements
    <3>2. QED
      BY <2>2, <3>1
  <2>6. \A r \in Socket : \A p \in Elements(up[r]) : p \in Elements(up'[r])
    BY <2>3 DEF Elements
  <2>7. \A x \in Tab : live'[x] =>
          /\ SocketOf(x)' \in Socket
          /\ SocketOf(x)' \in room' \/ \E p \in Elements(up'[SocketOf(x)']) : p.event = "join"
    BY <1>2, <2>6 DEF JoinsFirst
  <2>8. ASSUME NEW r \in Socket, NEW i \in DOMAIN up'[r], up'[r][i].event = "chat",
               ~up'[r][i].message.kept
        PROVE  JoinBefore(r, i)'
    <3>1. CASE r = s /\ i = n
      BY <2>5, <3>1 DEF JoinBefore
    <3>2. CASE r # s \/ i # n
      <4>1. i \in DOMAIN up[r] /\ up'[r][i] = up[r][i]
        BY <2>1, <2>2, <2>8, <3>2
      <4>2. QED
        BY <2>4, <2>8, <4>1 DEF JoinsFirst
    <3>3. QED
      BY <3>1, <3>2
  <2>9. QED
    BY <2>1, <2>7, <2>8 DEF JoinsFirst
<1>4. CASE ~live[t]
  <2>1. /\ up' = up /\ buffer'[t] = Append(buffer[t], packet)
        /\ \A x \in Tab : x # t => buffer'[x] = buffer[x]
    BY <1>4, Emitted
  <2>2. \A m \in Texts(buffer'[t]) : m.kept
    BY <1>1, <1>4, <2>1, TextsAppended DEF JoinsFirst
  <2>3. \A x \in Tab : \A m \in Texts(buffer'[x]) : m.kept
    BY <2>1, <2>2 DEF JoinsFirst
  <2>4. \A x \in Tab : live'[x] =>
          /\ SocketOf(x)' \in Socket
          /\ SocketOf(x)' \in room' \/ \E p \in Elements(up'[SocketOf(x)']) : p.event = "join"
    BY <1>2, <2>1 DEF JoinsFirst
  <2>5. \A s \in Socket : \A i \in DOMAIN up'[s] :
          up'[s][i].event = "chat" /\ ~up'[s][i].message.kept => JoinBefore(s, i)'
    BY <2>1 DEF JoinsFirst, JoinBefore
  <2>6. QED
    BY <2>3, <2>4, <2>5 DEF JoinsFirst
<1>5. QED
  BY <1>3, <1>4

LEMMA ConnectJoinsFirst ==
  ASSUME TypeOK, JoinsFirst, NEW t \in Tab, Connect(t)
  PROVE  JoinsFirst'
<1> DEFINE s == <<t, connection[t] + 1>>
           join == [event |-> "join", press |-> 0]
           n == Len(buffer[t]) + 1
<1>1. /\ buffer \in [Tab -> Seq(Request)] /\ up \in [Socket -> Seq(Request)] /\ s \in Socket
      /\ connection \in [Tab -> 0..MaxConnections] /\ live \in [Tab -> BOOLEAN]
  BY DEF TypeOK, Connect
<1>2. join \in Request /\ join.event = "join"
  BY DEF Request
<1>3. /\ up' = [up EXCEPT ![s] = Append(buffer[t], join)]
      /\ buffer' = [buffer EXCEPT ![t] = <<>>]
      /\ connection' = [connection EXCEPT ![t] = connection[t] + 1]
      /\ live' = [live EXCEPT ![t] = TRUE]
      /\ UNCHANGED <<room, chatting>>
  BY DEF Connect, handlers
<1>4. SocketOf(t)' = s /\ \A x \in Tab : x # t => SocketOf(x)' = SocketOf(x) /\ SocketOf(x) # s
  BY <1>1, <1>3 DEF SocketOf
<1> HIDE DEF s, join
<1>5. /\ up'[s] = Append(buffer[t], join) /\ buffer'[t] = <<>>
      /\ \A r \in Socket : r # s => up'[r] = up[r]
      /\ \A x \in Tab : x # t => buffer'[x] = buffer[x] /\ live'[x] = live[x]
  BY <1>1, <1>3
<1>6. /\ DOMAIN up'[s] = 1..n /\ n \in 1..n /\ up'[s][n] = join
      /\ \A i \in 1..n : i # n => i \in DOMAIN buffer[t] /\ up'[s][i] = buffer[t][i]
  BY <1>1, <1>2, <1>5
<1> HIDE DEF n
<1>7. join \in Elements(up'[s])
  BY <1>6 DEF Elements
<1>8. \A x \in Tab : live'[x] =>
        /\ SocketOf(x)' \in Socket
        /\ SocketOf(x)' \in room' \/ \E p \in Elements(up'[SocketOf(x)']) : p.event = "join"
  BY <1>1, <1>2, <1>3, <1>4, <1>5, <1>7 DEF JoinsFirst
<1>9. Texts(buffer'[t]) = {}
  BY <1>5 DEF Texts, Elements
<1>10. \A x \in Tab : \A m \in Texts(buffer'[x]) : m.kept
  BY <1>5, <1>9 DEF JoinsFirst
<1>11. ASSUME NEW r \in Socket, NEW i \in DOMAIN up'[r], up'[r][i].event = "chat",
              ~up'[r][i].message.kept
       PROVE  JoinBefore(r, i)'
  <2>1. CASE r = s
    <3>1. i \in DOMAIN buffer[t] /\ up'[s][i] = buffer[t][i]
      BY <1>2, <1>6, <1>11, <2>1
    <3>2. buffer[t][i].message \in Texts(buffer[t])
      BY <1>11, <2>1, <3>1, TextsIn
    <3>3. QED
      BY <1>11, <2>1, <3>1, <3>2 DEF JoinsFirst
  <2>2. CASE r # s
    BY <1>3, <1>5, <1>11, <2>2 DEF JoinsFirst, JoinBefore
  <2>3. QED
    BY <2>1, <2>2
<1>12. QED
  BY <1>3, <1>8, <1>10, <1>11 DEF JoinsFirst

LEMMA ReceiveJoinsFirst ==
  ASSUME TypeOK, JoinsFirst, NEW s \in Socket, Receive(s)
  PROVE  JoinsFirst'
<1> DEFINE p == Head(up[s])
<1>1. up \in [Socket -> Seq(Request)] /\ up[s] # <<>> /\ up[s] \in Seq(Request)
  BY DEF TypeOK, Receive
<1>2. /\ up' = [up EXCEPT ![s] = Tail(up[s])]
      /\ UNCHANGED <<connection, live, buffer>>
      /\ room \subseteq room' /\ (p.event = "join" => s \in room')
      /\ \/ chatting' = chatting
         \/ p.event = "chat" /\ chatting' = chatting \union {[socket |-> s, message |-> p.message]}
  BY DEF Receive
<1>3. up'[s] = Tail(up[s]) /\ \A r \in Socket : r # s => up'[r] = up[r]
  BY <1>1, <1>2
<1>4. /\ 1 \in DOMAIN up[s] /\ up[s][1] = p
      /\ \A i \in DOMAIN up[s] : i # 1 => i - 1 \in DOMAIN up'[s] /\ up'[s][i - 1] = up[s][i]
      /\ \A i \in DOMAIN up'[s] : i + 1 \in DOMAIN up[s] /\ up[s][i + 1] = up'[s][i]
      /\ DOMAIN up[s] \subseteq Nat \ {0} /\ DOMAIN up'[s] \subseteq Nat
  BY <1>1, <1>3
<1> HIDE DEF p
<1>5. ASSUME NEW i \in DOMAIN up'[s], JoinBefore(s, i + 1)
      PROVE  JoinBefore(s, i)'
  <2>1. CASE s \in room
    BY <1>2, <2>1 DEF JoinBefore
  <2>2. ASSUME NEW j \in DOMAIN up[s], j < i + 1, up[s][j].event = "join"
        PROVE  JoinBefore(s, i)'
    <3>1. CASE j = 1
      BY <1>2, <1>4, <2>2, <3>1 DEF JoinBefore
    <3>2. CASE j # 1
      <4>1. j - 1 \in DOMAIN up'[s] /\ up'[s][j - 1].event = "join" /\ j - 1 < i
        BY <1>4, <2>2, <3>2
      <4>2. QED
        BY <4>1 DEF JoinBefore
    <3>3. QED
      BY <3>1, <3>2
  <2>3. QED
    BY <1>5, <2>1, <2>2 DEF JoinBefore
<1>6. ASSUME NEW r \in Socket, NEW i \in DOMAIN up'[r], up'[r][i].event = "chat",
             ~up'[r][i].message.kept
      PROVE  JoinBefore(r, i)'
  <2>1. CASE r = s
    <3>1. i + 1 \in DOMAIN up[s] /\ up[s][i + 1] = up'[s][i]
      BY <1>4, <1>6, <2>1
    <3>2. JoinBefore(s, i + 1)
      BY <1>6, <2>1, <3>1 DEF JoinsFirst
    <3>3. QED
      BY <1>5, <1>6, <2>1, <3>2
  <2>2. CASE r # s
    BY <1>2, <1>3, <1>6, <2>2 DEF JoinsFirst, JoinBefore
  <2>3. QED
    BY <2>1, <2>2
<1>7. ASSUME NEW x \in Tab, live'[x]
      PROVE  /\ SocketOf(x)' \in Socket
             /\ SocketOf(x)' \in room' \/ \E q \in Elements(up'[SocketOf(x)']) : q.event = "join"
  <2> DEFINE r == SocketOf(x)
  <2>1. /\ SocketOf(x)' = r /\ r \in Socket
        /\ r \in room \/ \E q \in Elements(up[r]) : q.event = "join"
    BY <1>2, <1>7 DEF SocketOf, JoinsFirst
  <2> HIDE DEF r
  <2>2. CASE r = s
    <3>1. ASSUME NEW i \in DOMAIN up[s], up[s][i].event = "join"
          PROVE  s \in room' \/ \E q \in Elements(up'[s]) : q.event = "join"
      BY <1>2, <1>4, <3>1 DEF Elements
    <3>2. s \in room \/ \E i \in DOMAIN up[s] : up[s][i].event = "join"
      BY <2>1, <2>2 DEF Elements
    <3>3. QED
      BY <1>2, <2>1, <2>2, <3>1, <3>2
  <2>3. CASE r # s
    BY <1>2, <1>3, <2>1, <2>3
  <2>4. QED
    BY <2>2, <2>3
<1>8. ASSUME p.event = "chat"
      PROVE  p.message.kept \/ s \in room
  BY <1>4, <1>8 DEF JoinsFirst, JoinBefore
<1>9. \A c \in chatting' : c.message.kept \/ c.socket \in room'
  BY <1>2, <1>8 DEF JoinsFirst
<1>10. QED
  BY <1>2, <1>6, <1>7, <1>9 DEF JoinsFirst

-----------------------------------------------------------------------------
(* The order of the room. *)

Once(order) == \A i, j \in DOMAIN order : order[i] = order[j] => i = j

LEMMA BeforeStays ==
  ASSUME NEW order \in Seq(Message), NEW m \in Message
  PROVE  /\ \A a, b : Before(order, a, b) => Before(Append(order, m), a, b)
         /\ \A a \in Elements(order) : a \in Elements(Append(order, m))
                                       /\ Before(Append(order, m), a, m)
         /\ m \in Elements(Append(order, m))
<1> DEFINE longer == Append(order, m)
           n == Len(order) + 1
<1>1. /\ \A i \in DOMAIN order : i \in DOMAIN longer /\ longer[i] = order[i] /\ i < n
      /\ n \in DOMAIN longer /\ longer[n] = m
  OBVIOUS
<1> HIDE DEF longer, n
<1>2. \A a, b : Before(order, a, b) => Before(longer, a, b)
  BY <1>1 DEF Before
<1>3. \A a \in Elements(order) : a \in Elements(longer) /\ Before(longer, a, m)
  BY <1>1 DEF Before, Elements
<1>4. m \in Elements(longer)
  BY <1>1 DEF Elements
<1>5. QED
  BY <1>2, <1>3, <1>4 DEF longer

LEMMA BeforeOrders ==
  ASSUME NEW order \in Seq(Message), Once(order)
  PROVE  /\ \A a, b : Before(order, a, b) => a # b
         /\ \A a, b, c : Before(order, a, b) /\ Before(order, b, c) => Before(order, a, c)
<1>1. DOMAIN order \subseteq Int
  OBVIOUS
<1>2. ASSUME NEW a, NEW b, NEW c, Before(order, a, b), Before(order, b, c)
      PROVE  Before(order, a, c)
  <2>1. PICK i, j \in DOMAIN order : i < j /\ order[i] = a /\ order[j] = b
    BY <1>2 DEF Before
  <2>2. PICK k, l \in DOMAIN order : k < l /\ order[k] = b /\ order[l] = c
    BY <1>2 DEF Before
  <2>3. j = k
    BY <2>1, <2>2 DEF Once
  <2>4. i < l
    BY <1>1, <2>1, <2>2, <2>3
  <2>5. QED
    BY <2>1, <2>2, <2>4 DEF Before
<1>3. ASSUME NEW a, Before(order, a, a)
      PROVE  FALSE
  <2>1. PICK i, j \in DOMAIN order : i < j /\ order[i] = a /\ order[j] = a
    BY <1>3 DEF Before
  <2>2. i = j
    BY <2>1 DEF Once
  <2>3. QED
    BY <1>1, <2>1, <2>2
<1>4. QED
  BY <1>2, <1>3

\* Neither a message nor the news that one was sent.
Quiet(p) == p.event # "message" /\ ~(p.event = "chatAnswer" /\ p.sent)

\* Nothing but such packets comes behind what is on its way.
QuietMore ==
  \A t \in Tab :
    /\ \A i \in DOMAIN down[t] : i \in DOMAIN down'[t] /\ down'[t][i] = down[t][i]
    /\ \A i \in DOMAIN down'[t] : i \in DOMAIN down[t] \/ Quiet(down'[t][i])

LEMMA QuietOrder ==
  ASSUME InOrder, AnswersLast, QuietMore, UNCHANGED <<told, messages, confirmed>>
  PROVE  InOrder' /\ AnswersLast'
<1>1. ASSUME NEW t \in Tab
      PROVE  Ordered(told', messages'[t], down'[t])
  <2>1. Ordered(told, messages[t], down[t])
    BY DEF InOrder
  <2>2. \A j \in DOMAIN down'[t] : down'[t][j].event = "message" =>
          j \in DOMAIN down[t] /\ down'[t][j] = down[t][j]
    BY DEF QuietMore, Quiet
  <2>3. QED
    BY <2>1, <2>2 DEF Ordered
<1>2. ASSUME NEW t \in Tab
      PROVE  Answered(told', messages'[t], down'[t], confirmed'[t])
  <2>1. Answered(told, messages[t], down[t], confirmed[t])
    BY DEF AnswersLast
  <2>2. \A j \in DOMAIN down'[t] : down'[t][j].event = "chatAnswer" /\ down'[t][j].sent =>
          j \in DOMAIN down[t] /\ down'[t][j] = down[t][j]
    BY DEF QuietMore, Quiet
  <2>3. \A i \in DOMAIN down[t] : i \in DOMAIN down'[t] /\ down'[t][i] = down[t][i]
    BY DEF QuietMore
  <2>4. QED
    BY <2>1, <2>2, <2>3 DEF Answered
<1>3. QED
  BY <1>1, <1>2 DEF InOrder, AnswersLast

\* A step in which the chat goes no further.
Calm ==
  /\ QuietMore /\ chatting' \subseteq chatting
  /\ UNCHANGED <<told, messages, confirmed, connection, live, room, buffer, up, presses>>

LEMMA CalmKeeps ==
  ASSUME TypeOK, ChatInv, Calm
  PROVE  ChatInv'
<1>1. InOrder' /\ AnswersLast'
  BY QuietOrder DEF ChatInv, Calm
<1>2. JoinsFirst'
  BY FewerJoinFirst DEF ChatInv, Calm
<1>3. OnePlace'
  <2>1. /\ \A t \in Tab : NoneTwice(buffer'[t]) /\ Texts(buffer'[t]) \subseteq Texts(buffer[t])
        /\ \A s \in Socket : NoneTwice(up'[s]) /\ Texts(up'[s]) \subseteq Texts(up[s])
    BY DEF ChatInv, OnePlace, Calm
  <2>2. presses' \in [Tab -> Nat] /\ \A t \in Tab : presses'[t] >= presses[t]
    BY DEF TypeOK, Calm
  <2>3. QED
    BY <2>1, <2>2, FewerInOnePlace DEF ChatInv, Calm
<1>4. QED
  BY <1>1, <1>2, <1>3 DEF ChatInv

\* What a page was sent, s, with a message and an answer, or part of them, behind.
Behind(s, r, packet, answer, kept) ==
  LET l == Len(s)
  IN /\ l \in Nat /\ DOMAIN s = 1..l /\ DOMAIN r \subseteq Nat \ {0}
     /\ \A i \in DOMAIN s : i \in DOMAIN r /\ r[i] = s[i]
     /\ \A i \in DOMAIN r :
          \/ i \in DOMAIN s
          \/ i = l + 1 /\ r[i] = packet
          \/ /\ i > l /\ r[i] = answer
             /\ kept \/ (l + 1 \in DOMAIN r /\ l + 1 < i /\ r[l + 1] = packet)

LEMMA TellComes ==
  ASSUME NEW s \in Seq(Packet), NEW r \in Seq(Packet), NEW packet, NEW answer, NEW kept,
         \/ r = s \o <<>> \o <<>>
         \/ r = s \o <<packet>> \o <<>>
         \/ r = s \o <<packet>> \o <<answer>>
         \/ r = s \o <<>> \o <<answer>> /\ kept
  PROVE  Behind(s, r, packet, answer, kept)
<1> USE DEF Behind
<1> DEFINE l == Len(s)
<1>1. DOMAIN s = 1..l /\ l \in Nat /\ DOMAIN r \subseteq Nat \ {0}
  OBVIOUS
<1>2. CASE r = s \o <<>> \o <<>>
  <2>1. DOMAIN r = 1..l /\ \A i \in 1..l : r[i] = s[i]
    BY <1>2
  <2>2. QED
    BY <1>1, <2>1
<1>3. CASE r = s \o <<packet>> \o <<>>
  <2>1. /\ DOMAIN r = 1..(l + 1) /\ r[l + 1] = packet
        /\ \A i \in 1..l : r[i] = s[i]
    BY <1>3
  <2>2. QED
    BY <1>1, <2>1
<1>4. CASE r = s \o <<packet>> \o <<answer>>
  <2>1. /\ DOMAIN r = 1..(l + 2) /\ r[l + 1] = packet /\ r[l + 2] = answer
        /\ \A i \in 1..l : r[i] = s[i]
    BY <1>4
  <2>2. QED
    BY <1>1, <2>1
<1>5. CASE r = s \o <<>> \o <<answer>> /\ kept
  <2>1. /\ DOMAIN r = 1..(l + 1) /\ r[l + 1] = answer
        /\ \A i \in 1..l : r[i] = s[i]
    BY <1>5
  <2>2. QED
    BY <1>1, <1>5, <2>1
<1>6. QED
  BY <1>2, <1>3, <1>4, <1>5

\* A message is told: to those in the room, and to its sender before the answer.
LEMMA TellInOrder ==
  ASSUME TypeOK, TypeOK', ChatInv, NEW c \in chatting, handleChatSend(c)
  PROVE  InOrder' /\ AnswersLast'
<1> DEFINE m == c.message
           answer == [event |-> "chatAnswer", message |-> m, sent |-> TRUE]
           packet == [event |-> "message", message |-> m]
<1>1. /\ told' = Append(told, m) /\ TellThenAnswer(c.socket, packet, answer)
      /\ UNCHANGED <<messages, confirmed, live, room, connection>>
  BY DEF handleChatSend, TellMessage, page
<1>2. /\ m \in Message /\ told \in Seq(Message) /\ m \notin Elements(told)
      /\ m.kept \/ c.socket \in room
  BY DEF TypeOK, ChatInv, OnePlace, JoinsFirst
<1>3. /\ packet.event = "message" /\ packet.message = m
      /\ answer.event = "chatAnswer" /\ answer.message = m
  OBVIOUS
<1>4. packet \in Packet /\ answer \in Packet
  BY <1>2 DEF Packet
<1> HIDE DEF m, answer, packet
<1>5. /\ \A a, b : Before(told, a, b) => Before(told', a, b)
      /\ \A a \in Elements(told) : a \in Elements(told') /\ Before(told', a, m)
      /\ m \in Elements(told')
  BY <1>1, <1>2, BeforeStays
<1>6. ASSUME NEW t \in Tab
      PROVE  /\ down[t] \in Seq(Packet) /\ down'[t] \in Seq(Packet)
             /\ \/ down'[t] = down[t] \o <<>> \o <<>>
                \/ down'[t] = down[t] \o <<packet>> \o <<>>
                \/ down'[t] = down[t] \o <<packet>> \o <<answer>>
                \/ down'[t] = down[t] \o <<>> \o <<answer>> /\ m.kept
  <2> DEFINE s == down[t]
  <2>1. /\ s \in Seq(Packet) /\ down'[t] \in Seq(Packet)
        /\ down'[t] = s \o (IF RoomReaches(t) THEN <<packet>> ELSE <<>>)
                        \o (IF Reaches(c.socket, t) THEN <<answer>> ELSE <<>>)
    BY <1>1 DEF TellThenAnswer, TypeOK
  <2>2. Reaches(c.socket, t) => RoomReaches(t) \/ m.kept
    BY <1>2 DEF Reaches, RoomReaches
  <2>3. QED
    BY <2>1, <2>2
<1>7. ASSUME NEW t \in Tab
      PROVE  /\ Ordered(told', messages[t], down'[t])
             /\ Answered(told', messages[t], down'[t], confirmed[t])
  <2> DEFINE s == down[t]
             r == down'[t]
             l == Len(s)
  <2>0. /\ s \in Seq(Packet) /\ r \in Seq(Packet)
        /\ \/ r = s \o <<>> \o <<>>
           \/ r = s \o <<packet>> \o <<>>
           \/ r = s \o <<packet>> \o <<answer>>
           \/ r = s \o <<>> \o <<answer>> /\ m.kept
    BY <1>6
  <2> HIDE DEF s, r
  <2>1. /\ l \in Nat /\ DOMAIN s = 1..l /\ DOMAIN r \subseteq Nat \ {0}
        /\ \A i \in DOMAIN s : i \in DOMAIN r /\ r[i] = s[i]
        /\ \A i \in DOMAIN r :
             \/ i \in DOMAIN s
             \/ i = l + 1 /\ r[i] = packet
             \/ /\ i > l /\ r[i] = answer
                /\ m.kept \/ (l + 1 \in DOMAIN r /\ l + 1 < i /\ r[l + 1] = packet)
    <3>1. Behind(s, r, packet, answer, m.kept)
      BY <2>0, TellComes
    <3>2. QED
      BY <3>1 DEF Behind
  <2>2. Ordered(told, messages[t], s) /\ Answered(told, messages[t], s, confirmed[t])
    BY DEF ChatInv, InOrder, AnswersLast, s
  <2> HIDE DEF l
  <2>3. ASSUME NEW j \in DOMAIN r, r[j].event = "message"
        PROVE  /\ r[j].message \in Elements(told')
               /\ \A n \in Elements(messages[t]) : Before(told', n, r[j].message)
               /\ \A i \in DOMAIN r : i < j /\ r[i].event = "message" =>
                    Before(told', r[i].message, r[j].message)
    <3>1. CASE j \in DOMAIN s
      <4>1. \A i \in DOMAIN r : i < j => i \in DOMAIN s /\ r[i] = s[i]
        BY <2>1, <3>1
      <4>2. r[j] = s[j]
        BY <2>1, <3>1
      <4>3. QED
        BY <1>5, <2>2, <2>3, <3>1, <4>1, <4>2 DEF Ordered
    <3>2. CASE j = l + 1 /\ r[j] = packet
      <4>1. \A i \in DOMAIN r : i < j => i \in DOMAIN s /\ r[i] = s[i]
        BY <2>1, <3>2
      <4>2. QED
        BY <1>3, <1>5, <2>2, <3>2, <4>1 DEF Ordered
    <3>3. QED
      BY <1>3, <2>1, <2>3, <3>1, <3>2
  <2>4. Ordered(told', messages[t], r)
    BY <1>5, <2>2, <2>3 DEF Ordered
  <2>5. \A n : Seen(told, messages[t], n) => Seen(told', messages[t], n)
    BY <1>5 DEF Seen
  <2>6. ASSUME NEW j \in DOMAIN r, r[j].event = "chatAnswer", r[j].sent, ~r[j].message.kept
        PROVE  \/ Seen(told', messages[t], r[j].message)
               \/ \E i \in DOMAIN r : i < j /\ r[i].event = "message"
                                      /\ r[i].message = r[j].message
    <3>1. CASE j \in DOMAIN s
      BY <2>1, <2>2, <2>5, <2>6, <3>1 DEF Answered
    <3>2. CASE j \notin DOMAIN s
      BY <1>3, <2>1, <2>6, <3>2
    <3>3. QED
      BY <3>1, <3>2
  <2>7. \A n \in confirmed[t] : n.kept \/ Seen(told', messages[t], n)
    BY <2>2, <2>5 DEF Answered
  <2>8. QED
    BY <2>4, <2>6, <2>7 DEF Answered, r
<1>8. QED
  BY <1>1, <1>7 DEF InOrder, AnswersLast

\* The page takes the first packet.
LEMMA FirstTaken ==
  ASSUME NEW coming \in Seq(Packet), coming # <<>>
  PROVE  LET rest == Tail(coming)
         IN /\ 1 \in DOMAIN coming /\ coming[1] = Head(coming)
            /\ DOMAIN coming \subseteq Nat \ {0} /\ DOMAIN rest \subseteq Nat \ {0}
            /\ \A i \in DOMAIN rest : i + 1 \in DOMAIN coming /\ rest[i] = coming[i + 1]
            /\ \A i \in DOMAIN coming : i > 1 => i - 1 \in DOMAIN rest /\ rest[i - 1] = coming[i]
  OBVIOUS

\* It is no message: the page shows what it showed, and what may now be reported
\* as sent has been seen.
LEMMA AnswerHeard ==
  ASSUME NEW order, NEW list, NEW coming \in Seq(Packet), coming # <<>>, NEW reported, NEW more,
         Ordered(order, list, coming), Answered(order, list, coming, reported),
         Head(coming).event # "message",
         \A m \in more : \/ m \in reported
                         \/ /\ Head(coming).event = "chatAnswer" /\ Head(coming).sent
                            /\ m = Head(coming).message
  PROVE  Ordered(order, list, Tail(coming)) /\ Answered(order, list, Tail(coming), more)
<1> DEFINE rest == Tail(coming)
           p == Head(coming)
<1>1. /\ 1 \in DOMAIN coming /\ coming[1] = p
      /\ DOMAIN coming \subseteq Nat \ {0} /\ DOMAIN rest \subseteq Nat \ {0}
      /\ \A i \in DOMAIN rest : i + 1 \in DOMAIN coming /\ rest[i] = coming[i + 1]
      /\ \A i \in DOMAIN coming : i > 1 => i - 1 \in DOMAIN rest /\ rest[i - 1] = coming[i]
  BY FirstTaken
<1> HIDE DEF rest, p
<1>2. Ordered(order, list, rest)
  <2>1. ASSUME NEW j \in DOMAIN rest, rest[j].event = "message"
        PROVE  /\ rest[j].message \in Elements(order)
               /\ \A m \in Elements(list) : Before(order, m, rest[j].message)
               /\ \A i \in DOMAIN rest : i < j /\ rest[i].event = "message" =>
                    Before(order, rest[i].message, rest[j].message)
    <3>1. /\ j + 1 \in DOMAIN coming /\ coming[j + 1] = rest[j]
          /\ \A i \in DOMAIN rest : i + 1 \in DOMAIN coming /\ coming[i + 1] = rest[i]
                                    /\ (i < j => i + 1 < j + 1)
      BY <1>1
    <3>2. QED
      BY <2>1, <3>1 DEF Ordered
  <2>2. QED
    BY <2>1 DEF Ordered
<1>3. ASSUME NEW j \in DOMAIN rest, rest[j].event = "chatAnswer", rest[j].sent,
             ~rest[j].message.kept
      PROVE  \/ Seen(order, list, rest[j].message)
             \/ \E i \in DOMAIN rest : i < j /\ rest[i].event = "message"
                                       /\ rest[i].message = rest[j].message
  <2>1. \/ Seen(order, list, rest[j].message)
        \/ \E i \in DOMAIN coming : i < j + 1 /\ coming[i].event = "message"
                                    /\ coming[i].message = rest[j].message
    BY <1>1, <1>3 DEF Answered
  <2>2. ASSUME NEW i \in DOMAIN coming, i < j + 1, coming[i].event = "message",
               coming[i].message = rest[j].message
        PROVE  \E k \in DOMAIN rest : k < j /\ rest[k].event = "message"
                                      /\ rest[k].message = rest[j].message
    <3>1. i # 1
      BY <1>1, <2>2 DEF p
    <3>2. i - 1 \in DOMAIN rest /\ rest[i - 1] = coming[i] /\ i - 1 < j
      BY <1>1, <2>2, <3>1
    <3>3. QED
      BY <2>2, <3>2
  <2>3. QED
    BY <2>1, <2>2
<1>4. ASSUME p.event = "chatAnswer", p.sent, ~p.message.kept
      PROVE  Seen(order, list, p.message)
  <2>1. ~\E i \in DOMAIN coming : i < 1
    BY <1>1
  <2>2. QED
    BY <1>1, <1>4, <2>1 DEF Answered
<1>5. \A m \in more : m.kept \/ Seen(order, list, m)
  BY <1>4 DEF Answered, p
<1>6. QED
  BY <1>2, <1>3, <1>5 DEF Answered, rest

\* The list with one more message: as it was, or without its first.
LEMMA Shifted ==
  ASSUME NEW list \in Seq(Message), NEW m \in Message, m \notin Elements(list),
         Len(list) <= ChatLimit
  PROVE  \E d \in {0, 1} :
           LET l == Len(list) + 1 - d
               longer == handleMessage(list, m)
           IN /\ l \in Nat /\ l >= 1 /\ l <= ChatLimit
              /\ Len(longer) = l /\ DOMAIN longer = 1..l /\ longer[l] = m
              /\ DOMAIN list = 1..(l - 1 + d)
              /\ \A i \in 1..l : i # l => i + d \in DOMAIN list /\ longer[i] = list[i + d]
              /\ d = 1 <=> Len(list) = ChatLimit
<1>1. CASE Len(list) < ChatLimit
  <2>1. handleMessage(list, m) = Append(list, m)
    BY <1>1 DEF handleMessage
  <2>2. WITNESS 0 \in {0, 1}
  <2>3. QED
    BY <1>1, <2>1
<1>2. CASE Len(list) = ChatLimit
  <2>1. handleMessage(list, m) = Append(SubSeq(list, 2, Len(list)), m)
    <3>1. Len(list) - ChatLimit + 2 = 2 /\ ~(Len(list) < ChatLimit)
      BY <1>2
    <3>2. QED
      BY <3>1 DEF handleMessage
  <2> DEFINE tail == SubSeq(list, 2, Len(list))
  <2>2. /\ tail \in Seq(Message) /\ Len(tail) = Len(list) - 1
        /\ \A i \in 1..(Len(list) - 1) : tail[i] = list[i + 1]
    BY <1>2
  <2> HIDE DEF tail
  <2>3. /\ Len(Append(tail, m)) = Len(list) /\ DOMAIN Append(tail, m) = 1..Len(list)
        /\ Append(tail, m)[Len(list)] = m
        /\ \A i \in 1..(Len(list) - 1) : Append(tail, m)[i] = list[i + 1]
    BY <1>2, <2>2
  <2>4. WITNESS 1 \in {0, 1}
  <2>5. QED
    BY <1>2, <2>1, <2>3 DEF tail
<1>3. QED
  BY <1>1, <1>2

\* It is a message: it comes after all that is shown, and is shown itself.
LEMMA MessageHeard ==
  ASSUME NEW order \in Seq(Message), Once(order), NEW list \in Seq(Message),
         NEW coming \in Seq(Packet), coming # <<>>, NEW reported,
         Ordered(order, list, coming), Answered(order, list, coming, reported),
         Head(coming).event = "message", Head(coming).message \in Message
  PROVE  LET longer == handleMessage(list, Head(coming).message)
         IN Ordered(order, longer, Tail(coming)) /\ Answered(order, longer, Tail(coming), reported)
<1> DEFINE rest == Tail(coming)
           p == Head(coming)
           m == p.message
           longer == handleMessage(list, m)
<1>1. /\ 1 \in DOMAIN coming /\ coming[1] = p
      /\ DOMAIN coming \subseteq Nat \ {0} /\ DOMAIN rest \subseteq Nat \ {0}
      /\ \A i \in DOMAIN rest : i + 1 \in DOMAIN coming /\ rest[i] = coming[i + 1]
      /\ \A i \in DOMAIN coming : i > 1 => i - 1 \in DOMAIN rest /\ rest[i - 1] = coming[i]
  BY FirstTaken
<1>2. /\ \A a, b : Before(order, a, b) => a # b
      /\ \A a, b, c : Before(order, a, b) /\ Before(order, b, c) => Before(order, a, c)
  BY BeforeOrders
<1>3. /\ p.event = "message" /\ m \in Message
      /\ m \in Elements(order) /\ \A n \in Elements(list) : Before(order, n, m)
  BY <1>1 DEF Ordered
<1>4. m \notin Elements(list) /\ Len(list) <= ChatLimit
  BY <1>2, <1>3 DEF Ordered
<1>5. PICK d \in {0, 1} :
        LET l == Len(list) + 1 - d
        IN /\ l \in Nat /\ l >= 1 /\ l <= ChatLimit
           /\ Len(longer) = l /\ DOMAIN longer = 1..l /\ longer[l] = m
           /\ DOMAIN list = 1..(l - 1 + d)
           /\ \A i \in 1..l : i # l => i + d \in DOMAIN list /\ longer[i] = list[i + d]
           /\ d = 1 <=> Len(list) = ChatLimit
  <2> HIDE DEF m
  <2>1. QED
    BY <1>3, <1>4, Shifted
<1> DEFINE l == Len(list) + 1 - d
<1>6. /\ l \in Nat /\ l >= 1 /\ l <= ChatLimit
      /\ Len(longer) = l /\ DOMAIN longer = 1..l /\ longer[l] = m
      /\ DOMAIN list = 1..(l - 1 + d)
      /\ \A i \in 1..l : i # l => i + d \in DOMAIN list /\ longer[i] = list[i + d]
      /\ d = 1 <=> Len(list) = ChatLimit
  BY <1>5
<1>7. d = 1 => l = ChatLimit /\ 1 \in DOMAIN list
  BY <1>6
<1> HIDE DEF rest, longer, l, m, p
<1>8. \A n \in Elements(longer) : n \in Elements(list) \/ n = m
  BY <1>6 DEF Elements
<1>9. \A i, j \in DOMAIN longer : i < j => Before(order, longer[i], longer[j])
  <2>1. SUFFICES ASSUME NEW i \in 1..l, NEW j \in 1..l, i < j
                 PROVE  Before(order, longer[i], longer[j])
    BY <1>6
  <2>2. i # l /\ i + d \in DOMAIN list /\ longer[i] = list[i + d] /\ longer[i] \in Elements(list)
    BY <1>6, <2>1 DEF Elements
  <2>3. CASE j = l
    BY <1>3, <1>6, <2>2, <2>3
  <2>4. CASE j # l
    <3>1. j + d \in DOMAIN list /\ longer[j] = list[j + d] /\ i + d < j + d
      BY <1>6, <2>1, <2>4
    <3>2. QED
      BY <2>2, <3>1 DEF Ordered
  <2>5. QED
    BY <2>3, <2>4
<1>10. ASSUME NEW j \in DOMAIN rest, rest[j].event = "message"
       PROVE  /\ rest[j].message \in Elements(order)
              /\ \A n \in Elements(longer) : Before(order, n, rest[j].message)
              /\ \A i \in DOMAIN rest : i < j /\ rest[i].event = "message" =>
                   Before(order, rest[i].message, rest[j].message)
  <2>1. /\ j + 1 \in DOMAIN coming /\ coming[j + 1] = rest[j] /\ 1 < j + 1
        /\ \A i \in DOMAIN rest : i + 1 \in DOMAIN coming /\ coming[i + 1] = rest[i]
                                  /\ (i < j => i + 1 < j + 1)
    BY <1>1
  <2>2. Before(order, m, rest[j].message)
    BY <1>1, <1>3, <1>10, <2>1 DEF Ordered, m
  <2>3. QED
    BY <1>8, <1>10, <2>1, <2>2 DEF Ordered
<1>11. Ordered(order, longer, rest)
  BY <1>3, <1>6, <1>8, <1>9, <1>10 DEF Ordered
<1>12. m \in Elements(longer)
  BY <1>6 DEF Elements
<1>13. ASSUME NEW n, Seen(order, list, n)
       PROVE  Seen(order, longer, n)
  <2>1. ASSUME NEW k \in DOMAIN list, n = list[k]
        PROVE  Seen(order, longer, n)
    <3>1. CASE k > d
      <4>1. k - d \in 1..l /\ k - d # l /\ (k - d) + d = k
        BY <1>6, <3>1
      <4>2. longer[k - d] = n /\ k - d \in DOMAIN longer
        BY <1>6, <2>1, <4>1
      <4>3. QED
        BY <4>2 DEF Seen, Elements
    <3>2. CASE ~(k > d)
      <4>1. k = 1 /\ d = 1 /\ Len(longer) = ChatLimit
        BY <1>6, <1>7, <3>2
      <4>2. ASSUME NEW i \in DOMAIN longer
            PROVE  Before(order, n, longer[i])
        <5>1. CASE i = l
          BY <1>3, <1>6, <2>1, <5>1 DEF Elements
        <5>2. CASE i # l
          <6>1. i + 1 \in DOMAIN list /\ longer[i] = list[i + 1] /\ k < i + 1
            BY <1>6, <4>1, <4>2, <5>2
          <6>2. QED
            BY <2>1, <6>1 DEF Ordered
        <5>3. QED
          BY <5>1, <5>2
      <4>3. QED
        BY <4>1, <4>2 DEF Seen, Elements
    <3>3. QED
      BY <3>1, <3>2
  <2>2. CASE Len(list) = ChatLimit /\ \A x \in Elements(list) : Before(order, n, x)
    <3>1. d = 1 /\ Len(longer) = ChatLimit /\ list[1] \in Elements(list)
      BY <1>6, <1>7, <2>2 DEF Elements
    <3>2. Before(order, n, m)
      BY <1>2, <1>3, <2>2, <3>1
    <3>3. QED
      BY <1>8, <2>2, <3>1, <3>2 DEF Seen
  <2>3. n \in Elements(list) => \E k \in DOMAIN list : n = list[k]
    BY DEF Elements
  <2>4. QED
    BY <1>13, <2>1, <2>2, <2>3 DEF Seen
<1>14. ASSUME NEW j \in DOMAIN rest, rest[j].event = "chatAnswer", rest[j].sent,
              ~rest[j].message.kept
       PROVE  \/ Seen(order, longer, rest[j].message)
              \/ \E i \in DOMAIN rest : i < j /\ rest[i].event = "message"
                                        /\ rest[i].message = rest[j].message
  <2>1. \/ Seen(order, list, rest[j].message)
        \/ \E i \in DOMAIN coming : i < j + 1 /\ coming[i].event = "message"
                                    /\ coming[i].message = rest[j].message
    BY <1>1, <1>14 DEF Answered
  <2>2. ASSUME NEW i \in DOMAIN coming, i < j + 1, coming[i].event = "message",
               coming[i].message = rest[j].message
        PROVE  \/ Seen(order, longer, rest[j].message)
               \/ \E k \in DOMAIN rest : k < j /\ rest[k].event = "message"
                                         /\ rest[k].message = rest[j].message
    <3>1. CASE i = 1
      BY <1>1, <1>12, <2>2, <3>1 DEF Seen, m
    <3>2. CASE i # 1
      <4>1. i - 1 \in DOMAIN rest /\ rest[i - 1] = coming[i] /\ i - 1 < j
        BY <1>1, <2>2, <3>2
      <4>2. QED
        BY <2>2, <4>1
    <3>3. QED
      BY <3>1, <3>2
  <2>3. QED
    BY <1>13, <2>1, <2>2
<1>15. \A n \in reported : n.kept \/ Seen(order, longer, n)
  BY <1>13 DEF Answered
<1>16. Answered(order, longer, rest, reported)
  BY <1>14, <1>15 DEF Answered
<1>17. QED
  BY <1>11, <1>16 DEF rest, longer, m, p

-----------------------------------------------------------------------------
(* The chat, step by step. *)

LEMMA HearKeepsChat ==
  ASSUME TypeOK, ChatInv, NEW t \in Tab, Hear(t)
  PROVE  ChatInv'
<1> DEFINE p == Head(down[t])
<1>1. /\ down \in [Tab -> Seq(Packet)] /\ down[t] \in Seq(Packet) /\ down[t] # <<>>
      /\ messages \in [Tab -> Seq(Message)] /\ confirmed \in [Tab -> SUBSET Message]
      /\ told \in Seq(Message) /\ presses \in [Tab -> Nat]
  BY DEF TypeOK, Hear
<1>2. /\ down' = [down EXCEPT ![t] = Tail(down[t])]
      /\ UNCHANGED <<handlers, told, room, connection, live, buffer, up, presses>>
      /\ HearSnapshot(t, p) \/ HearBidAnswer(t, p) \/ HearMessage(t, p) \/ HearChatAnswer(t, p)
  BY DEF Hear
<1>3. p \in Packet /\ (p.event = "message" => p.message \in Message)
  <2>1. p \in Packet
    BY <1>1, Shortened
  <2>2. \A q \in Packet : q.event = "message" => q.message \in Message
    BY DEF Packet
  <2>3. QED
    BY <2>1, <2>2
<1>4. /\ down'[t] = Tail(down[t]) /\ \A x \in Tab : x # t => down'[x] = down[x]
  BY <1>1, <1>2
<1>5. OnePlace'
  <2>1. /\ \A x \in Tab : NoneTwice(buffer'[x]) /\ Texts(buffer'[x]) \subseteq Texts(buffer[x])
        /\ \A s \in Socket : NoneTwice(up'[s]) /\ Texts(up'[s]) \subseteq Texts(up[s])
    BY <1>2 DEF ChatInv, OnePlace
  <2>2. presses' \in [Tab -> Nat] /\ \A x \in Tab : presses'[x] >= presses[x]
    BY <1>1, <1>2
  <2>3. QED
    BY <1>2, <2>1, <2>2, FewerInOnePlace DEF ChatInv, handlers
<1>6. JoinsFirst'
  BY <1>2, FewerJoinFirst DEF ChatInv, handlers
<1>7. /\ Ordered(told, messages[t], down[t])
      /\ Answered(told, messages[t], down[t], confirmed[t])
      /\ Once(told) /\ messages[t] \in Seq(Message)
  BY <1>1 DEF ChatInv, InOrder, AnswersLast, OnePlace, Once
<1>8. /\ Ordered(told, messages'[t], down'[t])
      /\ Answered(told, messages'[t], down'[t], confirmed'[t])
  <2>1. CASE HearMessage(t, p)
    <3>1. p.event = "message" /\ messages'[t] = handleMessage(messages[t], p.message)
          /\ confirmed' = confirmed
      BY <1>1, <2>1 DEF HearMessage
    <3> DEFINE coming == down[t]
               list == messages[t]
               reported == confirmed[t]
    <3>2. /\ coming \in Seq(Packet) /\ coming # <<>> /\ list \in Seq(Message)
          /\ Head(coming).event = "message" /\ Head(coming).message \in Message
          /\ Ordered(told, list, coming) /\ Answered(told, list, coming, reported)
      BY <1>1, <1>3, <1>7, <3>1
    <3>3. /\ messages'[t] = handleMessage(list, Head(coming).message)
          /\ down'[t] = Tail(coming) /\ confirmed'[t] = reported
      BY <1>4, <3>1
    <3> HIDE DEF coming, list, reported
    <3>4. /\ Ordered(told, handleMessage(list, Head(coming).message), Tail(coming))
          /\ Answered(told, handleMessage(list, Head(coming).message), Tail(coming), reported)
      BY <1>1, <1>7, <3>2, MessageHeard
    <3>5. QED
      BY <3>3, <3>4
  <2>2. CASE HearChatAnswer(t, p)
    <3>1. /\ p.event = "chatAnswer" /\ messages' = messages
          /\ confirmed'[t] = IF sending[t] = p.message.press /\ p.sent
                             THEN confirmed[t] \union {p.message} ELSE confirmed[t]
      BY <1>1, <2>2 DEF HearChatAnswer
    <3>2. \A m \in confirmed'[t] : m \in confirmed[t]
                                   \/ (p.event = "chatAnswer" /\ p.sent /\ m = p.message)
      BY <3>1
    <3>3. p.event # "message"
      BY <3>1
    <3> DEFINE more == confirmed'[t]
               reported == confirmed[t]
    <3> HIDE DEF more, reported
    <3>4. Ordered(told, messages[t], Tail(down[t]))
          /\ Answered(told, messages[t], Tail(down[t]), more)
      BY <1>1, <1>7, <3>2, <3>3, AnswerHeard DEF more, reported
    <3>5. QED
      BY <1>4, <3>1, <3>4 DEF more
  <2>3. CASE HearSnapshot(t, p) \/ HearBidAnswer(t, p)
    <3>1. p.event # "message" /\ messages' = messages /\ confirmed' = confirmed
      BY <2>3 DEF HearSnapshot, HearBidAnswer
    <3>2. Ordered(told, messages[t], Tail(down[t]))
          /\ Answered(told, messages[t], Tail(down[t]), confirmed[t])
      BY <1>1, <1>7, <3>1, AnswerHeard
    <3>3. QED
      BY <1>4, <3>1, <3>2
  <2>4. QED
    BY <1>2, <2>1, <2>2, <2>3
<1>9. \A x \in Tab : x # t => messages'[x] = messages[x] /\ confirmed'[x] = confirmed[x]
  BY <1>1, <1>2 DEF HearSnapshot, HearBidAnswer, HearMessage, HearChatAnswer
<1>10. InOrder' /\ AnswersLast'
  BY <1>2, <1>4, <1>8, <1>9 DEF ChatInv, InOrder, AnswersLast
<1>11. QED
  BY <1>5, <1>6, <1>10 DEF ChatInv

\* Where nothing is said, told or heard.
LEMMA Unheard ==
  ASSUME ChatInv, UNCHANGED <<told, messages, confirmed, down>>
  PROVE  InOrder' /\ AnswersLast'
  BY DEF ChatInv, InOrder, AnswersLast

LEMMA CountTyped ==
  ASSUME TypeOK, NEW t \in Tab, Count(t)
  PROVE  presses' \in [Tab -> Nat] /\ \A x \in Tab : presses'[x] >= presses[x]
  BY DEF TypeOK, Count

LEMMA PressBidKeepsChat ==
  ASSUME TypeOK, ChatInv, NEW t \in Tab, PressBid(t)
  PROVE  ChatInv'
<1>1. PICK suggested \in BOOLEAN : \E amount \in (IF suggested THEN {shown[t].minimum} ELSE Typed) \ {0} :
        Emit(t, [event |-> "bid", press |-> presses[t] + 1, amount |-> amount,
                 suggested |-> suggested, seen |-> shown[t].version])
  BY DEF PressBid
<1>2. PICK amount \in (IF suggested THEN {shown[t].minimum} ELSE Typed) \ {0} :
        Emit(t, [event |-> "bid", press |-> presses[t] + 1, amount |-> amount,
                 suggested |-> suggested, seen |-> shown[t].version])
  BY <1>1
<1> DEFINE packet == [event |-> "bid", press |-> presses[t] + 1, amount |-> amount,
                      suggested |-> suggested, seen |-> shown[t].version]
<1>3. packet \in Request /\ packet.event = "bid"
  <2>1. presses[t] + 1 \in Press
    BY DEF TypeOK, Press
  <2>2. shown[t] \in Snapshot /\ shown[t].minimum \in Nat /\ shown[t].version \in Nat
    <3>1. shown[t] \in Snapshot
      BY DEF TypeOK, PressBid, NoSnapshot
    <3>2. QED
      BY <3>1 DEF Snapshot
  <2>3. amount \in Nat
    BY <2>2
  <2>4. packet \in BidIntent
    BY <2>1, <2>2, <2>3 DEF BidIntent
  <2>5. QED
    BY <2>4 DEF Request
<1>4. Emit(t, packet)
  BY <1>2
<1>5. UNCHANGED <<chatting, told, connection, live, room, down, messages, confirmed>> /\ Count(t)
  BY DEF PressBid, handlers
<1> HIDE DEF packet
<1>6. OnePlace'
  BY <1>3, <1>4, <1>5, CountTyped, PressBidOnePlace DEF ChatInv
<1>7. JoinsFirst'
  BY <1>3, <1>4, <1>5, EmitJoinsFirst DEF ChatInv
<1>8. QED
  BY <1>5, <1>6, <1>7, Unheard DEF ChatInv

LEMMA PressSendKeepsChat ==
  ASSUME TypeOK, ChatInv, NEW t \in Tab, PressSend(t)
  PROVE  ChatInv'
<1> DEFINE m == [tab |-> t, press |-> presses[t] + 1, kept |-> ~live[t]]
           packet == [event |-> "chat", press |-> presses[t] + 1, message |-> m]
<1>1. m \in Message /\ packet \in Request /\ packet.message.kept = ~live[t]
  <2>1. presses[t] + 1 \in Press
    BY DEF TypeOK, Press
  <2>2. (~live[t]) \in BOOLEAN
    OBVIOUS
  <2>3. QED
    BY <2>1, <2>2 DEF Message, Request
<1>2. Emit(t, packet)
  BY DEF PressSend
<1>3. UNCHANGED <<chatting, told, connection, live, room, down, messages, confirmed>>
  BY DEF PressSend, handlers
<1> HIDE DEF m, packet
<1>4. OnePlace'
  BY PressSendOnePlace DEF ChatInv
<1>5. JoinsFirst'
  BY <1>1, <1>2, <1>3, EmitJoinsFirst DEF ChatInv
<1>6. QED
  BY <1>3, <1>4, <1>5, Unheard DEF ChatInv

LEMMA ConnectKeepsChat ==
  ASSUME TypeOK, RequestsSound, ChatInv, NEW t \in Tab, Connect(t)
  PROVE  ChatInv'
<1>1. OnePlace' /\ JoinsFirst'
  BY ConnectOnePlace, ConnectJoinsFirst DEF ChatInv
<1>2. QED
  BY <1>1, Unheard DEF ChatInv, Connect, page

\* What was coming is lost.
LEMMA DropKeepsChat ==
  ASSUME TypeOK, ChatInv, NEW t \in Tab, Drop(t)
  PROVE  ChatInv'
<1>1. UNCHANGED <<chatting, told, room, connection, buffer, up, messages, confirmed, presses>>
  BY DEF Drop, handlers
<1>2. down'[t] = <<>> /\ \A x \in Tab : x # t => down'[x] = down[x]
  BY DEF Drop, TypeOK
<1>3. OnePlace'
  <2>1. presses \in [Tab -> Nat]
    BY DEF TypeOK
  <2>2. QED
    BY <1>1, <2>1, FewerInOnePlace DEF ChatInv, OnePlace
<1>4. JoinsFirst'
  <2>1. \A x \in Tab : live'[x] => live[x]
    BY DEF Drop, TypeOK
  <2>2. QED
    BY <1>1, <2>1, FewerJoinFirst DEF ChatInv
<1>5. InOrder'
  BY <1>1, <1>2 DEF ChatInv, InOrder, Ordered
<1>6. AnswersLast'
  BY <1>1, <1>2 DEF ChatInv, AnswersLast, Answered
<1>7. QED
  BY <1>3, <1>4, <1>5, <1>6 DEF ChatInv

LEMMA TimeoutKeepsChat ==
  ASSUME TypeOK, ChatInv, NEW t \in Tab, BidTimesOut(t) \/ SendTimesOut(t)
  PROVE  ChatInv'
<1>1. PICK p : GiveUp(t, p)
  BY DEF BidTimesOut, SendTimesOut
<1>2. UNCHANGED <<chatting, told, room, connection, live, up, down, messages, confirmed, presses>>
  BY <1>1 DEF GiveUp, handlers
<1>3. buffer \in [Tab -> Seq(Request)] /\ presses \in [Tab -> Nat]
  BY DEF TypeOK
<1>4. \A x \in Tab : NoneTwice(buffer'[x]) /\ Texts(buffer'[x]) \subseteq Texts(buffer[x])
  <2>1. \A x \in Tab : NoneTwice(buffer[x])
    BY DEF ChatInv, OnePlace
  <2>2. CASE buffer' = buffer
    BY <2>1, <2>2
  <2>3. ASSUME NEW i \in DOMAIN buffer[t],
               buffer' = [buffer EXCEPT ![t] = SubSeq(buffer[t], 1, i - 1)
                                               \o SubSeq(buffer[t], i + 1, Len(buffer[t]))]
        PROVE  \A x \in Tab : NoneTwice(buffer'[x]) /\ Texts(buffer'[x]) \subseteq Texts(buffer[x])
    <3> DEFINE rest == SubSeq(buffer[t], 1, i - 1) \o SubSeq(buffer[t], i + 1, Len(buffer[t]))
    <3>1. NoneTwice(rest) /\ Texts(rest) \subseteq Texts(buffer[t])
      BY <1>3, <2>1, TextsRemoved
    <3>2. buffer'[t] = rest /\ \A x \in Tab : x # t => buffer'[x] = buffer[x]
      BY <1>3, <2>3
    <3> HIDE DEF rest
    <3>3. QED
      BY <2>1, <3>1, <3>2
  <2>4. QED
    BY <1>1, <2>2, <2>3 DEF GiveUp
<1>5. OnePlace'
  BY <1>2, <1>3, <1>4, FewerInOnePlace DEF ChatInv, OnePlace
<1>6. JoinsFirst'
  BY <1>2, <1>4, FewerJoinFirst DEF ChatInv
<1>7. QED
  BY <1>2, <1>5, <1>6, Unheard DEF ChatInv

LEMMA ReceiveKeepsChat ==
  ASSUME TypeOK, ChatInv, NEW s \in Socket, Receive(s)
  PROVE  ChatInv'
<1>1. OnePlace' /\ JoinsFirst'
  BY ReceiveOnePlace, ReceiveJoinsFirst DEF ChatInv
<1>2. QED
  BY <1>1, Unheard DEF ChatInv, Receive, page

LEMMA TellKeepsChat ==
  ASSUME TypeOK, TypeOK', ChatInv, NEW c \in chatting, handleChatSend(c)
  PROVE  ChatInv'
<1>1. OnePlace' /\ InOrder' /\ AnswersLast'
  BY TellOnePlace, TellInOrder DEF ChatInv
<1>2. JoinsFirst'
  BY FewerJoinFirst DEF ChatInv, handleChatSend
<1>3. QED
  BY <1>1, <1>2 DEF ChatInv

-----------------------------------------------------------------------------
(* What else the server sends. *)

\* At most two packets behind what is coming.
LEMMA QuietBehind ==
  ASSUME TypeOK, NEW a, NEW b, Quiet(a), Quiet(b),
         \A t \in Tab : \/ down'[t] = down[t] \o <<>> \o <<>>
                        \/ down'[t] = down[t] \o <<a>> \o <<>>
                        \/ down'[t] = down[t] \o <<>> \o <<b>>
                        \/ down'[t] = down[t] \o <<a>> \o <<b>>
                        \/ down'[t] = Append(down[t], a)
                        \/ down'[t] = down[t]
  PROVE  QuietMore
<1> SUFFICES ASSUME NEW t \in Tab
             PROVE  /\ \A i \in DOMAIN down[t] : i \in DOMAIN down'[t] /\ down'[t][i] = down[t][i]
                    /\ \A i \in DOMAIN down'[t] : i \in DOMAIN down[t] \/ Quiet(down'[t][i])
  BY DEF QuietMore
<1> DEFINE s == down[t]
           r == down'[t]
           l == Len(s)
<1>1. /\ s \in Seq(Packet)
      /\ \/ r = s \o <<>> \o <<>> \/ r = s \o <<a>> \o <<>> \/ r = s \o <<>> \o <<b>>
         \/ r = s \o <<a>> \o <<b>> \/ r = Append(s, a) \/ r = s
  BY DEF TypeOK
<1> HIDE DEF s, r
<1>2. l \in Nat /\ DOMAIN s = 1..l
  BY <1>1
<1>3. /\ \A i \in 1..l : i \in DOMAIN r /\ r[i] = s[i]
      /\ \A i \in DOMAIN r : i \in 1..l \/ r[i] = a \/ r[i] = b
  <2>1. CASE r = s \o <<>> \o <<>>
    BY <1>1, <2>1
  <2>2. CASE r = s \o <<a>> \o <<>>
    <3>1. DOMAIN r = 1..(l + 1) /\ r[l + 1] = a /\ \A i \in 1..l : r[i] = s[i]
      BY <1>1, <2>2
    <3>2. QED
      BY <1>2, <3>1
  <2>3. CASE r = s \o <<>> \o <<b>>
    <3>1. DOMAIN r = 1..(l + 1) /\ r[l + 1] = b /\ \A i \in 1..l : r[i] = s[i]
      BY <1>1, <2>3
    <3>2. QED
      BY <1>2, <3>1
  <2>4. CASE r = s \o <<a>> \o <<b>>
    <3>1. /\ DOMAIN r = 1..(l + 2) /\ r[l + 1] = a /\ r[l + 2] = b
          /\ \A i \in 1..l : r[i] = s[i]
      BY <1>1, <2>4
    <3>2. QED
      BY <1>2, <3>1
  <2>5. CASE r = Append(s, a)
    <3>1. DOMAIN r = 1..(l + 1) /\ r[l + 1] = a /\ \A i \in 1..l : r[i] = s[i]
      BY <1>1, <2>5
    <3>2. QED
      BY <1>2, <3>1
  <2>6. CASE r = s
    BY <1>2, <2>6
  <2>7. QED
    BY <1>1, <2>1, <2>2, <2>3, <2>4, <2>5, <2>6
<1>4. QED
  BY <1>2, <1>3 DEF s, r

LEMMA AnswerQuiet ==
  ASSUME TypeOK, NEW s, NEW packet, Quiet(packet), Answer(s, packet) \/ TellRoom(packet)
  PROVE  QuietMore
<1>1. \A t \in Tab : down'[t] = down[t] \/ down'[t] = Append(down[t], packet)
  BY DEF Answer, TellRoom
<1>2. QED
  BY <1>1, QuietBehind

LEMMA AnswerThenTellQuiet ==
  ASSUME TypeOK, NEW s, NEW answer, NEW packet, Quiet(answer), Quiet(packet),
         AnswerThenTell(s, answer, packet)
  PROVE  QuietMore
<1>1. \A t \in Tab : \/ down'[t] = down[t] \o <<>> \o <<>>
                     \/ down'[t] = down[t] \o <<answer>> \o <<>>
                     \/ down'[t] = down[t] \o <<>> \o <<packet>>
                     \/ down'[t] = down[t] \o <<answer>> \o <<packet>>
  BY DEF AnswerThenTell
<1>2. QED
  BY <1>1, QuietBehind

LEMMA SnapshotsQuiet == \A u : Quiet(SnapshotFor(u))
  BY DEF Quiet, SnapshotFor

LEMMA BidAnswersQuiet == \A w : Quiet(BidAnswer(w))
  BY DEF Quiet, BidAnswer

LEMMA ServerCalm ==
  ASSUME TypeOK,
         \/ \E s \in joins : AnswerJoin(s)
         \/ \E w \in waiting : AcceptBid(w) \/ RefuseBid(w) \/ RefuseLateBid(w) \/ BidFails(w)
         \/ startAuction \/ EndPasses \/ finalizeAuction
         \/ \E c \in chatting : RefuseMessage(c) \/ ChatFails(c)
  PROVE  Calm
<1>1. ASSUME NEW s \in joins, AnswerJoin(s)
      PROVE  Calm
  <2>1. QuietMore
    BY <1>1, AnswerQuiet, SnapshotsQuiet DEF AnswerJoin
  <2>2. QED
    BY <1>1, <2>1 DEF Calm, AnswerJoin, page
<1>2. ASSUME NEW w \in waiting, AcceptBid(w) \/ RefuseLateBid(w)
      PROVE  Calm
  <2>1. QuietMore
    BY <1>2, AnswerThenTellQuiet, SnapshotsQuiet, BidAnswersQuiet DEF AcceptBid, RefuseLateBid
  <2>2. QED
    BY <1>2, <2>1 DEF Calm, AcceptBid, RefuseLateBid, page
<1>3. ASSUME NEW w \in waiting, RefuseBid(w) \/ BidFails(w)
      PROVE  Calm
  <2>1. QuietMore
    BY <1>3, AnswerQuiet, BidAnswersQuiet DEF RefuseBid, BidFails
  <2>2. QED
    BY <1>3, <2>1 DEF Calm, RefuseBid, BidFails, page
<1>4. ASSUME startAuction \/ finalizeAuction
      PROVE  Calm
  <2>1. ByTimer
    BY <1>4 DEF startAuction, finalizeAuction
  <2>2. QuietMore
    BY <2>1, AnswerQuiet, SnapshotsQuiet DEF ByTimer
  <2>3. QED
    BY <2>1, <2>2 DEF Calm, ByTimer, handlers, page
<1>5. ASSUME EndPasses
      PROVE  Calm
  BY <1>5 DEF Calm, QuietMore, EndPasses, handlers, network, page
<1>6. ASSUME NEW c \in chatting, NotSent(c)
      PROVE  Calm
  <2> DEFINE answer == [event |-> "chatAnswer", message |-> c.message, sent |-> FALSE]
  <2>1. Quiet(answer)
    BY DEF Quiet
  <2>2. Answer(c.socket, answer)
    BY <1>6 DEF NotSent
  <2> HIDE DEF answer
  <2>3. QuietMore
    BY <2>1, <2>2, AnswerQuiet
  <2>4. QED
    BY <1>6, <2>3 DEF Calm, NotSent, page
<1>7. QED
  BY <1>1, <1>2, <1>3, <1>4, <1>5, <1>6 DEF RefuseMessage, ChatFails

-----------------------------------------------------------------------------
LEMMA InitChat == Init => ChatInv
<1> SUFFICES ASSUME Init PROVE ChatInv
  OBVIOUS
<1>1. Texts(<<>>) = {} /\ Elements(<<>>) = {} /\ NoneTwice(<<>>)
  BY DEF Texts, Elements, NoneTwice
<1>2. OnePlace
  BY <1>1 DEF Init, OnePlace, Handled
<1>3. JoinsFirst
  BY <1>1 DEF Init, JoinsFirst
<1>4. InOrder
  BY <1>1 DEF Init, InOrder, Ordered
<1>5. AnswersLast
  BY DEF Init, AnswersLast, Answered
<1>6. QED
  BY <1>2, <1>3, <1>4, <1>5 DEF ChatInv

LEMMA NextChat == FInv /\ FInv' /\ ChatInv /\ [Next]_vars => ChatInv'
<1> SUFFICES ASSUME FInv, FInv', ChatInv, [Next]_vars PROVE ChatInv'
  OBVIOUS
<1>1. TypeOK /\ TypeOK' /\ RequestsSound
  BY DEF FInv
<1>2. ASSUME NEW t \in Tab, Page(t)
      PROVE  ChatInv'
  BY <1>1, <1>2, PressBidKeepsChat, PressSendKeepsChat, ConnectKeepsChat, DropKeepsChat,
     TimeoutKeepsChat, HearKeepsChat DEF Page
<1>3. ASSUME Server
      PROVE  ChatInv'
  <2>1. ASSUME NEW s \in Socket, Receive(s)
        PROVE  ChatInv'
    BY <1>1, <2>1, ReceiveKeepsChat
  <2>2. ASSUME NEW c \in chatting, handleChatSend(c)
        PROVE  ChatInv'
    BY <1>1, <2>2, TellKeepsChat
  <2>3. CASE \/ \E s \in joins : AnswerJoin(s)
             \/ \E w \in waiting : AcceptBid(w) \/ RefuseBid(w) \/ RefuseLateBid(w) \/ BidFails(w)
             \/ startAuction \/ EndPasses \/ finalizeAuction
             \/ \E c \in chatting : RefuseMessage(c) \/ ChatFails(c)
    BY <1>1, <2>3, ServerCalm, CalmKeeps
  <2>4. QED
    BY <1>3, <2>1, <2>2, <2>3 DEF Server
<1>4. CASE UNCHANGED vars
  <2>1. Calm
    BY <1>4 DEF Calm, QuietMore, vars, handlers, network, page
  <2>2. QED
    BY <1>1, <2>1, CalmKeeps
<1>5. QED
  BY <1>2, <1>3, <1>4 DEF Next

\* A message is in one place at a time, is told once, to everyone in the room in
\* the same order, and its sender has it before the answer unless it overtook
\* the join (handleChatSend, useAuctionChat).
THEOREM ChatInvariant == Spec => []ChatInv
<1>1. Init => ChatInv
  BY InitChat
<1>2. FInv /\ FInv' /\ ChatInv /\ [Next]_vars => ChatInv'
  BY NextChat
<1>3. QED
  BY <1>1, <1>2, FormsInvariant, PTL DEF Spec

LEMMA PlacedOnce ==
  ASSUME OnePlace, told \in Seq(Message), NEW m, NEW n, Before(told, m, n)
  PROVE  Place(m) < Place(n)
<1>1. PICK i, j \in DOMAIN told : i < j /\ told[i] = m /\ told[j] = n
  BY DEF Before
<1>2. \A k, l \in DOMAIN told : told[k] = told[l] => k = l
  BY DEF OnePlace
<1>3. Place(m) = i /\ Place(n) = j
  BY <1>1, <1>2 DEF Place
<1>4. QED
  BY <1>1, <1>3

\* Every page shows messages in the order in which the room was told them, none
\* twice, and what was reported as sent is among them or pushed out by later
\* ones, unless it overtook the join (handleChatSend, useAuctionChat).
THEOREM ChatTrue == Spec => []ChatIsTrue
<1>1. FInv /\ ChatInv => ChatIsTrue
  <2> SUFFICES ASSUME FInv, ChatInv, NEW t \in Tab
               PROVE  /\ Len(messages[t]) <= ChatLimit
                      /\ Elements(messages[t]) \subseteq Elements(told)
                      /\ \A i, j \in DOMAIN messages[t] :
                           i < j => Place(messages[t][i]) < Place(messages[t][j])
                      /\ \A m \in confirmed[t] : m.kept \/ m \in Elements(messages[t])
                           \/ /\ Len(messages[t]) = ChatLimit
                              /\ \A n \in Elements(messages[t]) : Place(m) < Place(n)
    BY DEF ChatIsTrue
  <2>1. \A m, n : Before(told, m, n) => Place(m) < Place(n)
    BY PlacedOnce DEF FInv, TypeOK, ChatInv
  <2>2. /\ Ordered(told, messages[t], down[t])
        /\ Answered(told, messages[t], down[t], confirmed[t])
    BY DEF ChatInv, InOrder, AnswersLast
  <2>3. QED
    BY <2>1, <2>2 DEF Ordered, Answered, Seen
<1>2. QED
  BY <1>1, FormsInvariant, ChatInvariant, PTL

=============================================================================
