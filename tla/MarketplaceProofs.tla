------------------------- MODULE MarketplaceProofs -------------------------
(***************************************************************************)
(* For any auctions, lists and bounds: the list of the page is proper, and *)
(* in quiet times right about every auction that is not in "lost".         *)
(***************************************************************************)
EXTENDS Marketplace, TLAPS

USE MarketAssumption

-----------------------------------------------------------------------------
(* Lists of cards. *)

Distinct(cards) == \A i, j \in DOMAIN cards : cards[i].id = cards[j].id => i = j

\* The cards of one list are among those of the other.
Among(some, cards) == \A i \in DOMAIN some : \E j \in DOMAIN cards : some[i] = cards[j]

LEMMA Concat ==
  ASSUME NEW s \in Seq(Card), NEW t \in Seq(Card)
  PROVE  /\ s \o t \in Seq(Card) /\ Len(s \o t) = Len(s) + Len(t)
         /\ \A i \in 1..Len(s) : (s \o t)[i] = s[i]
         /\ \A i \in 1..Len(t) : (s \o t)[Len(s) + i] = t[i]
  OBVIOUS

LEMMA WithoutAt ==
  ASSUME NEW cards \in Seq(Card), NEW k \in DOMAIN cards,
         NEW rest, rest = SubSeq(cards, 1, k - 1) \o SubSeq(cards, k + 1, Len(cards))
  PROVE  /\ rest \in Seq(Card) /\ Len(rest) = Len(cards) - 1
         /\ \A i \in DOMAIN rest : rest[i] = IF i < k THEN cards[i] ELSE cards[i + 1]
<1>1. k \in 1..Len(cards) /\ Len(cards) \in Nat
  OBVIOUS
<1> DEFINE head == SubSeq(cards, 1, k - 1)
           tail == SubSeq(cards, k + 1, Len(cards))
<1>2. head \in Seq(Card) /\ Len(head) = k - 1 /\ \A i \in 1..(k - 1) : head[i] = cards[i]
  BY <1>1
<1>3. /\ tail \in Seq(Card) /\ Len(tail) = Len(cards) - k
      /\ \A i \in 1..(Len(cards) - k) : tail[i] = cards[k + i]
  BY <1>1
<1>4. rest = head \o tail
  OBVIOUS
<1> HIDE DEF head, tail
<1>5. rest \in Seq(Card) /\ Len(rest) = Len(head) + Len(tail)
  BY <1>2, <1>3, <1>4, Concat
<1>6. Len(rest) = Len(cards) - 1 /\ DOMAIN rest = 1..(Len(cards) - 1)
  <2>1. (k - 1) + (Len(cards) - k) = Len(cards) - 1
    BY <1>1
  <2>2. Len(rest) = Len(cards) - 1
    BY <1>2, <1>3, <1>5, <2>1
  <2>3. DOMAIN rest = 1..Len(rest)
    BY <1>5
  <2>4. QED
    BY <2>2, <2>3
<1>7. ASSUME NEW i \in DOMAIN rest
      PROVE  rest[i] = IF i < k THEN cards[i] ELSE cards[i + 1]
  <2>1. CASE i < k
    <3>1. i \in 1..Len(head)
      BY <1>1, <1>2, <1>6, <2>1
    <3>2. rest[i] = head[i]
      BY <1>2, <1>3, <1>4, <3>1, Concat
    <3>3. QED
      BY <1>2, <2>1, <3>1, <3>2
  <2>2. CASE ~(i < k)
    <3>5. /\ i \in Int /\ k \in Int /\ Len(cards) \in Int
          /\ i <= Len(cards) - 1 /\ k <= i
          /\ Len(head) = k - 1 /\ Len(tail) = Len(cards) - k
      BY <1>1, <1>2, <1>3, <1>6, <2>2
    <3>1. PICK j \in 1..Len(tail) : Len(head) + j = i /\ k + j = i + 1
      <4>1. i - (k - 1) \in 1..Len(tail)
        BY ONLY <3>5
      <4>2. Len(head) + (i - (k - 1)) = i /\ k + (i - (k - 1)) = i + 1
        BY ONLY <3>5
      <4>3. QED
        BY <4>1, <4>2
    <3>2. rest[Len(head) + j] = tail[j]
      <4>1. \A m \in 1..Len(tail) : (head \o tail)[Len(head) + m] = tail[m]
        BY <1>2, <1>3, Concat
      <4>2. QED
        BY <1>4, <3>1, <4>1
    <3>3. tail[j] = cards[k + j]
      BY <1>3, <3>1
    <3>4. QED
      BY <2>2, <3>1, <3>2, <3>3
  <2>3. QED
    BY <2>1, <2>2
<1>8. QED
  BY <1>5, <1>6, <1>7

LEMMA WithoutIs ==
  ASSUME NEW cards \in Seq(Card), Distinct(cards), NEW id
  PROVE  /\ Without(cards, id) \in Seq(Card) /\ Len(Without(cards, id)) <= Len(cards)
         /\ Distinct(Without(cards, id)) /\ Among(Without(cards, id), cards)
         /\ IdsOf(Without(cards, id)) = IdsOf(cards) \ {id}
<1> DEFINE rest == Without(cards, id)
<1>1. CASE id \notin IdsOf(cards)
  BY <1>1 DEF Without, Among
<1>2. CASE id \in IdsOf(cards)
  <2>1. PICK k \in DOMAIN cards :
          cards[k].id = id /\ rest = SubSeq(cards, 1, k - 1) \o SubSeq(cards, k + 1, Len(cards))
    <3> DEFINE i == CHOOSE k \in DOMAIN cards : cards[k].id = id
    <3>1. i \in DOMAIN cards /\ cards[i].id = id
      BY <1>2 DEF IdsOf
    <3>2. rest = SubSeq(cards, 1, i - 1) \o SubSeq(cards, i + 1, Len(cards))
      BY <1>2 DEF Without
    <3>3. QED
      BY <3>1, <3>2
  <2> HIDE DEF rest
  <2>2. /\ rest \in Seq(Card) /\ Len(rest) = Len(cards) - 1
        /\ \A i \in DOMAIN rest : rest[i] = IF i < k THEN cards[i] ELSE cards[i + 1]
    BY <2>1, WithoutAt
  <2>3. DOMAIN rest = 1..(Len(cards) - 1) /\ DOMAIN cards = 1..Len(cards)
        /\ Len(cards) \in Nat /\ k \in 1..Len(cards)
    BY <2>2
  <2>4. Distinct(rest)
    BY <2>2, <2>3 DEF Distinct
  <2>5. Among(rest, cards)
    BY <2>2, <2>3 DEF Among
  <2>6. id \notin IdsOf(rest)
    <3> SUFFICES ASSUME NEW i \in DOMAIN rest, rest[i].id = id PROVE FALSE
      BY DEF IdsOf
    <3>1. CASE i < k
      <4>1. i \in DOMAIN cards /\ cards[i].id = cards[k].id
        BY <2>1, <2>2, <2>3, <3>1
      <4>2. i = k
        BY <4>1 DEF Distinct
      <4>3. QED
        BY <2>3, <3>1, <4>2
    <3>2. CASE ~(i < k)
      <4>1. rest[i] = cards[i + 1]
        BY <2>2, <3>2
      <4>4. i \in 1..(Len(cards) - 1)
        BY <2>3
      <4>5. i + 1 \in DOMAIN cards
        BY <2>3, <4>4
      <4>2. i + 1 = k
        BY <2>1, <4>1, <4>5 DEF Distinct
      <4>3. QED
        BY <2>3, <3>2, <4>2
    <3>3. QED
      BY <3>1, <3>2
  <2>7. IdsOf(rest) \subseteq IdsOf(cards)
    BY <2>5 DEF Among, IdsOf
  <2>8. ASSUME NEW i \in DOMAIN cards, cards[i].id # id
        PROVE  cards[i].id \in IdsOf(rest)
    <3>1. CASE i < k
      <4>1. i \in DOMAIN rest /\ rest[i] = cards[i]
        BY <2>2, <2>3, <3>1
      <4>2. QED
        BY <4>1 DEF IdsOf
    <3>2. CASE i > k
      <4>1. i - 1 \in DOMAIN rest /\ rest[i - 1] = cards[i]
        BY <2>2, <2>3, <3>2
      <4>2. QED
        BY <4>1 DEF IdsOf
    <3>3. QED
      BY <2>1, <2>3, <2>8, <3>1, <3>2
  <2>9. IdsOf(rest) = IdsOf(cards) \ {id}
    BY <2>6, <2>7, <2>8 DEF IdsOf
  <2>10. QED
    BY <2>2, <2>3, <2>4, <2>5, <2>9 DEF rest
<1>3. QED
  BY <1>1, <1>2

LEMMA InFront ==
  ASSUME NEW card \in Card, NEW cards \in Seq(Card), Distinct(cards), card.id \notin IdsOf(cards)
  PROVE  /\ <<card>> \o cards \in Seq(Card) /\ Distinct(<<card>> \o cards)
         /\ (<<card>> \o cards)[1] = card
         /\ Len(<<card>> \o cards) = Len(cards) + 1
         /\ \A i \in DOMAIN (<<card>> \o cards) : i # 1 => (<<card>> \o cards)[i] = cards[i - 1]
<1> DEFINE list == <<card>> \o cards
<1>1. list \in Seq(Card) /\ Len(list) = Len(cards) + 1 /\ list[1] = card
  OBVIOUS
<1>2. \A i \in 2..(Len(cards) + 1) : list[i] = cards[i - 1]
  OBVIOUS
<1>3. DOMAIN list = 1..(Len(cards) + 1) /\ DOMAIN cards = 1..Len(cards) /\ Len(cards) \in Nat
  BY <1>1
<1> HIDE DEF list
<1>4. Distinct(list)
  <2> SUFFICES ASSUME NEW i \in DOMAIN list, NEW j \in DOMAIN list, list[i].id = list[j].id, i # j
               PROVE  FALSE
    BY DEF Distinct
  <2>1. CASE i = 1
    <3>1. j - 1 \in DOMAIN cards /\ list[j] = cards[j - 1]
      BY <1>2, <1>3, <2>1
    <3>2. QED
      BY <1>1, <2>1, <3>1 DEF IdsOf
  <2>2. CASE j = 1
    <3>1. i - 1 \in DOMAIN cards /\ list[i] = cards[i - 1]
      BY <1>2, <1>3, <2>2
    <3>2. QED
      BY <1>1, <2>2, <3>1 DEF IdsOf
  <2>3. CASE i # 1 /\ j # 1
    <3>1. /\ i - 1 \in DOMAIN cards /\ list[i] = cards[i - 1]
          /\ j - 1 \in DOMAIN cards /\ list[j] = cards[j - 1]
      BY <1>2, <1>3, <2>3
    <3>2. i - 1 = j - 1
      BY <3>1 DEF Distinct
    <3>3. QED
      BY <1>3, <3>2
  <2>4. QED
    BY <2>1, <2>2, <2>3
<1>5. QED
  BY <1>1, <1>2, <1>3, <1>4 DEF list

LEMMA TruncatedIs ==
  ASSUME NEW cards \in Seq(Card), Distinct(cards), args \in Args
  PROVE  /\ Truncated(cards) \in Seq(Card) /\ Distinct(Truncated(cards))
         /\ Len(Truncated(cards)) <= args.limit /\ Among(Truncated(cards), cards)
         /\ cards # <<>> => Truncated(cards) # <<>> /\ Truncated(cards)[1] = cards[1]
<1>1. args.limit \in Nat \ {0} /\ Len(cards) \in Nat
  BY DEF ListArgs
<1>2. CASE Len(cards) > args.limit
  <2> DEFINE short == SubSeq(cards, 1, args.limit)
  <2>1. /\ short \in Seq(Card) /\ Len(short) = args.limit
        /\ \A i \in 1..args.limit : short[i] = cards[i]
    BY <1>1, <1>2
  <2>2. Truncated(cards) = short
    BY <1>2 DEF Truncated
  <2> HIDE DEF short
  <2>3. DOMAIN short = 1..args.limit /\ 1..args.limit \subseteq DOMAIN cards /\ 1 \in 1..args.limit
    BY <1>1, <1>2, <2>1
  <2>4. QED
    BY <1>1, <2>1, <2>2, <2>3 DEF Distinct, Among
<1>3. CASE ~(Len(cards) > args.limit)
  BY <1>1, <1>3 DEF Truncated, Among
<1>4. QED
  BY <1>2, <1>3

\* What applyMarketplaceUpdate does to a list.
Replaced(list, cards, card) ==
  /\ list \in Seq(Card) /\ Distinct(list) /\ Len(list) <= args.limit
  /\ \A i \in DOMAIN list :
       \/ list[i] = card /\ matchesList(card)
       \/ list[i].id # card.id /\ \E j \in DOMAIN cards : list[i] = cards[j]
  /\ matchesList(card) => card.id \in IdsOf(list)

LEMMA Updated ==
  ASSUME NEW cards \in Seq(Card), Distinct(cards), Len(cards) <= args.limit,
         NEW card \in Card, args \in Args,
         NEW list, list = applyMarketplaceUpdate(cards, card)
  PROVE  Replaced(list, cards, card)
<1> DEFINE rest == Without(cards, card.id)
           longer == <<card>> \o rest
<1>1. /\ rest \in Seq(Card) /\ Len(rest) <= Len(cards) /\ Distinct(rest)
      /\ Among(rest, cards) /\ card.id \notin IdsOf(rest)
  BY WithoutIs
<1>2. args.limit \in Nat /\ Len(cards) \in Nat /\ Len(rest) \in Nat
  BY <1>1 DEF ListArgs
<1> HIDE DEF rest
<1>3. ASSUME NEW i \in DOMAIN rest
      PROVE  rest[i].id # card.id /\ \E j \in DOMAIN cards : rest[i] = cards[j]
  BY <1>1 DEF Among, IdsOf
<1>4. CASE ~matchesList(card)
  <2>1. list = rest
    BY <1>4 DEF applyMarketplaceUpdate, rest
  <2>2. QED
    BY <1>1, <1>2, <1>3, <1>4, <2>1 DEF Replaced
<1>5. CASE matchesList(card)
  <2>1. list = Truncated(longer)
    BY <1>5 DEF applyMarketplaceUpdate, rest
  <2>2. /\ longer \in Seq(Card) /\ Distinct(longer) /\ longer[1] = card
        /\ Len(longer) = Len(rest) + 1
        /\ \A i \in DOMAIN longer : i # 1 => longer[i] = rest[i - 1]
    BY <1>1, InFront
  <2>3. DOMAIN longer = 1..(Len(rest) + 1) /\ DOMAIN rest = 1..Len(rest) /\ longer # <<>>
    BY <1>1, <1>2, <2>2
  <2> HIDE DEF longer
  <2>4. ASSUME NEW i \in DOMAIN longer
        PROVE  \/ longer[i] = card
               \/ longer[i].id # card.id /\ \E j \in DOMAIN cards : longer[i] = cards[j]
    <3>1. CASE i = 1
      BY <2>2, <3>1
    <3>2. CASE i # 1
      <4>1. longer[i] = rest[i - 1] /\ i - 1 \in DOMAIN rest
        BY <1>2, <2>2, <2>3, <3>2
      <4>2. QED
        BY <1>3, <4>1
    <3>3. QED
      BY <3>1, <3>2
  <2>5. /\ list \in Seq(Card) /\ Distinct(list) /\ Len(list) <= args.limit
        /\ Among(list, longer) /\ list # <<>> /\ list[1] = card
    BY <2>1, <2>2, <2>3, TruncatedIs
  <2>6. 1 \in DOMAIN list
    BY <2>5
  <2>7. card.id \in IdsOf(list)
    BY <2>5, <2>6 DEF IdsOf
  <2>8. QED
    BY <1>5, <2>4, <2>5, <2>7 DEF Among, Replaced
<1>6. QED
  BY <1>4, <1>5

-----------------------------------------------------------------------------
(* Cards of auctions, and the answer of GET /auctions. *)

LEMMA IdsAreAuctions ==
  ASSUME NEW cards \in Seq(Card)
  PROVE  IdsOf(cards) \subseteq Auction
<1>1. \A i \in DOMAIN cards : cards[i] \in Card
  OBVIOUS
<1>2. \A i \in DOMAIN cards : cards[i].id \in Auction
  BY <1>1 DEF Card
<1>3. QED
  BY <1>2 DEF IdsOf

LEMMA CurrentCard ==
  ASSUME TypeOK, NEW a \in Auction, Exists(a)
  PROVE  CardOf(a) \in Card /\ WasTrue(CardOf(a))
<1>1. statuses[a] \in Seq(Status) /\ statuses[a] # <<>>
  BY DEF TypeOK, Exists
<1>2. Len(statuses[a]) \in Nat \ {0}
  BY <1>1
<1>3. Version(a) \in Nat /\ Version(a) < Len(statuses[a]) /\ Version(a) + 1 = Len(statuses[a])
  BY <1>2 DEF Version
<1>4. StatusOf(a) \in Status
  BY <1>1, <1>2 DEF StatusOf
<1>5. QED
  BY <1>3, <1>4 DEF CardOf, WasTrue, Card, StatusOf

\* The card of a newborn auction.
LEMMA FirstCard ==
  ASSUME TypeOK, NEW a \in Auction, Exists(a),
         NEW card, card = [id |-> a, status |-> statuses[a][1], version |-> 0]
  PROVE  card \in Card /\ WasTrue(card) /\ (Version(a) = 0 => card = CardOf(a))
<1>1. statuses[a] \in Seq(Status) /\ statuses[a] # <<>>
  BY DEF TypeOK, Exists
<1>2. Len(statuses[a]) \in Nat \ {0} /\ statuses[a][1] \in Status
  BY <1>1
<1>3. card \in Card
  BY <1>2 DEF Card
<1>4. WasTrue(card)
  BY <1>2 DEF WasTrue
<1>5. Version(a) = 0 => Len(statuses[a]) = 1
  BY <1>2 DEF Version
<1>6. QED
  BY <1>3, <1>4, <1>5 DEF CardOf, StatusOf

LEMMA CardExists ==
  ASSUME TypeOK, NEW card \in Card, WasTrue(card)
  PROVE  Exists(card.id) /\ card.id \in Auction
<1>1. card.id \in Auction /\ card.version \in Nat
  BY DEF Card
<1>2. statuses[card.id] \in Seq(Status)
  BY <1>1 DEF TypeOK
<1>3. Len(statuses[card.id]) # 0
  BY <1>1, <1>2 DEF WasTrue
<1>4. QED
  BY <1>1, <1>2, <1>3 DEF Exists

LEMMA AnswerIsGood ==
  ASSUME TypeOK, NEW page \in Pages, FirstPage(page)
  PROVE  /\ page \in Seq(Card) /\ ProperList(page)
         /\ \A a \in Auction : Right(a, page, {b \in Auction : Selected(b)} \ IdsOf(page))
<1>1. PICK n \in 0..args.limit : page \in [1..n -> {CardOf(a) : a \in {b \in Auction : Exists(b)}}]
  BY DEF Pages
<1>2. args.limit \in Nat /\ n \in Nat
  BY <1>1 DEF TypeOK, ListArgs
<1>3. {CardOf(a) : a \in {b \in Auction : Exists(b)}} \subseteq Card
  BY CurrentCard
<1>4. page \in [1..n -> Card]
  BY <1>1, <1>3
<1>5. page \in Seq(Card) /\ Len(page) = n /\ DOMAIN page = 1..n
  BY <1>2, <1>4
<1> DEFINE selected == {a \in Auction : Selected(a)}
           before(i) == {page[j].id : j \in 1..(i - 1)}
<1>6. ASSUME NEW i \in DOMAIN page
      PROVE  /\ page[i].id \in Auction /\ Selected(page[i].id) /\ page[i].id \notin before(i)
             /\ page[i] = CardOf(page[i].id)
  BY DEF FirstPage
<1>7. \A i \in DOMAIN page : WasTrue(page[i]) /\ args.status \in {"any", page[i].status}
                             /\ (args.search => page[i].id \in Indexed \union Contains)
  <2> SUFFICES ASSUME NEW i \in DOMAIN page
               PROVE  WasTrue(page[i]) /\ args.status \in {"any", page[i].status}
                      /\ (args.search => page[i].id \in Indexed \union Contains)
    OBVIOUS
  <2>1. WasTrue(page[i])
    BY <1>6, CurrentCard DEF Selected
  <2>2. page[i].status = StatusOf(page[i].id)
    BY <1>6 DEF CardOf
  <2>3. QED
    BY <1>6, <2>1, <2>2 DEF Selected
<1>8. ASSUME NEW i \in DOMAIN page, NEW j \in DOMAIN page, page[i].id = page[j].id
      PROVE  i = j
  <2>1. i \in 1..n /\ j \in 1..n
    BY <1>5
  <2>2. ~(j < i)
    <3> SUFFICES ASSUME j < i PROVE FALSE
      OBVIOUS
    <3>1. j \in 1..(i - 1)
      BY <1>2, <2>1
    <3>2. QED
      BY <1>6, <1>8, <3>1
  <2>3. ~(i < j)
    <3> SUFFICES ASSUME i < j PROVE FALSE
      OBVIOUS
    <3>1. i \in 1..(j - 1)
      BY <1>2, <2>1
    <3>2. QED
      BY <1>6, <1>8, <3>1
  <2>4. QED
    BY <1>2, <2>1, <2>2, <2>3
<1>9. ProperList(page)
  BY <1>2, <1>5, <1>7, <1>8 DEF ProperList
<1>10. ASSUME NEW a \in Auction PROVE Right(a, page, selected \ IdsOf(page))
  BY <1>6 DEF Right
<1>11. QED
  BY <1>5, <1>9, <1>10

-----------------------------------------------------------------------------
(* What a write leaves as it is. *)

LEMMA Appended ==
  ASSUME NEW s \in Seq(Status), NEW status \in Status
  PROVE  /\ Append(s, status) \in Seq(Status) /\ Len(Append(s, status)) = Len(s) + 1
         /\ Append(s, status) # <<>>
         /\ \A i \in 1..Len(s) : Append(s, status)[i] = s[i]
  OBVIOUS

LEMMA WriteKeeps ==
  ASSUME MInv, NEW a \in Auction, NEW status \in Status, Write(a, status)
  PROVE  /\ statuses' \in [Auction -> Seq(Status)] /\ newer' \in [Auction -> SUBSET Auction]
         /\ fetch' \in FetchState
         /\ \A b \in Auction : Exists(b) => Exists(b)'
         /\ Exists(a)' /\ (~Exists(a) => Version(a)' = 0)
         /\ \A b \in Auction \ {a} :
              statuses'[b] = statuses[b] /\ CardOf(b)' = CardOf(b) /\ Version(b)' = Version(b)
         /\ NewsTrue' /\ AnswerGood' /\ CardsTrue'
         /\ \A b \in Auction \ {a} : RightAbout(b) => RightAbout(b)'
<1> USE DEF MInv, TypeOK
<1>1. statuses' = [statuses EXCEPT ![a] = Append(statuses[a], status)]
  BY DEF Write
<1>2. /\ Append(statuses[a], status) \in Seq(Status)
      /\ Len(Append(statuses[a], status)) = Len(statuses[a]) + 1
      /\ Append(statuses[a], status) # <<>>
      /\ \A i \in 1..Len(statuses[a]) : Append(statuses[a], status)[i] = statuses[a][i]
      /\ Len(statuses[a]) \in Nat
  BY Appended
<1>3. statuses' \in [Auction -> Seq(Status)]
      /\ statuses'[a] = Append(statuses[a], status)
      /\ \A b \in Auction \ {a} : statuses'[b] = statuses[b]
  BY <1>1, <1>2
<1>4. newer' \in [Auction -> SUBSET Auction]
  BY DEF Write
<1>5. /\ news' = news /\ socket' = socket /\ args' = args /\ items' = items /\ cut' = cut
      /\ entry' = entry /\ lost' = lost
  BY DEF Write
<1>6. fetch' \in FetchState /\ fetch'.stage = fetch.stage /\ fetch'.page = fetch.page
      /\ fetch'.rest = fetch.rest
      /\ (fetch.stage = "read" => fetch'.behind = fetch.behind \union {a})
  BY DEF Write, FetchState
<1>7. \A b \in Auction : Exists(b) => Exists(b)'
  BY <1>2, <1>3 DEF Exists
<1>8. Exists(a)' /\ (~Exists(a) => Version(a)' = 0)
  <2>1. Exists(a)'
    BY <1>2, <1>3 DEF Exists
  <2>2. ASSUME ~Exists(a) PROVE Version(a)' = 0
    <3>1. statuses[a] = <<>>
      BY <2>2 DEF Exists
    <3>2. Len(statuses'[a]) = 1
      BY <1>2, <1>3, <3>1
    <3>3. QED
      BY <3>2 DEF Version
  <2>3. QED
    BY <2>1, <2>2
<1>9. \A b \in Auction \ {a} : CardOf(b)' = CardOf(b) /\ Version(b)' = Version(b)
  BY <1>3 DEF CardOf, StatusOf, Version
<1>10. ASSUME NEW card \in Card, WasTrue(card) PROVE WasTrue(card)'
  <2>1. card.id \in Auction /\ card.version \in Nat
    BY DEF Card
  <2>2. CASE card.id = a
    <3>1. card.version < Len(statuses[a]) /\ card.status = statuses[a][card.version + 1]
      BY <1>10, <2>2 DEF WasTrue
    <3>2. card.version + 1 \in 1..Len(statuses[a])
      BY <1>2, <2>1, <3>1
    <3>3. card.version < Len(statuses'[a]) /\ card.status = statuses'[a][card.version + 1]
      BY <1>2, <1>3, <2>1, <3>1, <3>2
    <3>4. QED
      BY <2>2, <3>3 DEF WasTrue
  <2>3. CASE card.id # a
    BY <1>3, <1>10, <2>1, <2>3 DEF WasTrue
  <2>4. QED
    BY <2>2, <2>3
<1>11. NewsTrue'
  <2>1. \A i \in DOMAIN news : news[i] \in Card
    OBVIOUS
  <2>2. QED
    BY <1>5, <1>10, <2>1 DEF NewsTrue
<1>12. ASSUME NEW cards \in Seq(Card), ProperList(cards) PROVE ProperList(cards)'
  <2>1. \A i \in DOMAIN cards : cards[i] \in Card
    OBVIOUS
  <2>2. QED
    BY <1>5, <1>10, <1>12, <2>1 DEF ProperList
<1>13. CardsTrue'
  BY <1>5, <1>12 DEF CardsTrue, ProperList, WasTrue
<1>14. ASSUME NEW b \in Auction \ {a}, NEW cards \in Seq(Card), NEW beyond,
              Right(b, cards, beyond)
       PROVE  Right(b, cards, beyond)'
  <2>1. Selected(b)' <=> Selected(b)
    BY <1>3, <1>5 DEF Selected, Exists, StatusOf
  <2>2. QED
    BY <1>5, <1>9, <1>14, <2>1 DEF Right
<1>15. AnswerGood'
  <2> SUFFICES ASSUME fetch'.stage = "read"
               PROVE  AnswerGood'
    BY DEF AnswerGood
  <2>1. PICK page \in Seq(Card), rest \in SUBSET Auction :
          page = fetch.page /\ rest = fetch.rest
    BY DEF FetchState
  <2>2. ProperList(page) /\ \A b \in Auction \ fetch.behind : Right(b, page, rest)
    BY <1>6, <2>1 DEF AnswerGood
  <2>3. fetch'.page = page /\ fetch'.rest = rest /\ fetch'.behind = fetch.behind \union {a}
    BY <1>6, <2>1
  <2>4. ProperList(page)'
    BY <1>12, <2>2
  <2>5. ASSUME NEW b \in Auction \ fetch'.behind PROVE Right(b, page, rest)'
    <3>1. b \in Auction \ {a} /\ b \notin fetch.behind
      BY <2>3
    <3>2. QED
      BY <1>14, <2>2, <3>1
  <2>6. ProperList(fetch.page)'
    BY <2>3, <2>4 DEF ProperList, WasTrue
  <2>7. \A b \in Auction \ fetch'.behind : Right(b, fetch.page, fetch.rest)'
    BY <2>3, <2>5 DEF Right
  <2>8. QED
    BY <2>6, <2>7 DEF AnswerGood
<1>16. \A b \in Auction \ {a} : RightAbout(b) => RightAbout(b)'
  BY <1>5, <1>14 DEF RightAbout, Right
<1>17. QED
  BY <1>3, <1>4, <1>6, <1>7, <1>8, <1>9, <1>11, <1>13, <1>15, <1>16

-----------------------------------------------------------------------------
(* What other steps leave as it is. *)

LEMMA SameAuctions ==
  ASSUME statuses' = statuses
  PROVE  /\ \A a \in Auction : /\ Exists(a)' <=> Exists(a)
                               /\ Version(a)' = Version(a) /\ CardOf(a)' = CardOf(a)
         /\ \A card \in Card : WasTrue(card)' <=> WasTrue(card)
  BY DEF Exists, Version, StatusOf, CardOf, WasTrue

LEMMA SameList ==
  ASSUME MInv, statuses' = statuses, args' = args, items' = items, cut' = cut
  PROVE  CardsTrue' /\ \A a \in Auction : RightAbout(a)' <=> RightAbout(a)
<1>1. CardsTrue'
  BY DEF MInv, CardsTrue, ProperList, WasTrue
<1>2. \A a \in Auction : RightAbout(a)' <=> RightAbout(a)
  BY DEF RightAbout, Right, Selected, Exists, Version, StatusOf, CardOf
<1>3. QED
  BY <1>1, <1>2

LEMMA SameToCome ==
  ASSUME statuses' = statuses, newborn' = newborn, unsent' = unsent, news' = news
  PROVE  \A a \in Auction : ToCome(a)' <=> ToCome(a)
  BY DEF ToCome, Version, StatusOf, CardOf

LEMMA SameNews ==
  ASSUME MInv, statuses' = statuses, news' = news, socket' = socket
  PROVE  NewsTrue'
  BY DEF MInv, NewsTrue, WasTrue

LEMMA FetchStep ==
  ASSUME MInv, statuses' = statuses, args' = args,
         Request \/ fetch' = NoFetch \/ fetch' = fetch
  PROVE  fetch' \in FetchState /\ AnswerGood'
<1>1. CASE fetch' = fetch
  <2>1. fetch' \in FetchState
    BY <1>1 DEF MInv, TypeOK
  <2>2. AnswerGood'
    BY <1>1 DEF MInv, AnswerGood, ProperList, WasTrue, Right, Selected, Exists, Version,
                StatusOf, CardOf
  <2>3. QED
    BY <2>1, <2>2
<1>2. CASE fetch' = NoFetch
  BY <1>2 DEF NoFetch, FetchState, AnswerGood
<1>3. CASE Request
  <2>1. PICK page \in Pages :
          /\ FirstPage(page)
          /\ fetch' = [stage |-> "read", page |-> page, behind |-> {},
                       rest |-> {a \in Auction : Selected(a)} \ IdsOf(page)]
    BY <1>3 DEF Request
  <2> DEFINE rest == {a \in Auction : Selected(a)} \ IdsOf(page)
  <2>2. /\ page \in Seq(Card) /\ ProperList(page)
        /\ \A a \in Auction : Right(a, page, rest)
    BY <2>1, AnswerIsGood DEF MInv
  <2>3. rest \in SUBSET Auction /\ fetch'.page = page /\ fetch'.rest = rest
    BY <2>1
  <2> HIDE DEF rest
  <2>4. fetch' \in FetchState
    BY <2>1, <2>2, <2>3 DEF FetchState
  <2>5. ProperList(fetch.page)'
    BY <2>2, <2>3 DEF ProperList, WasTrue
  <2>6. \A a \in Auction : Right(a, fetch.page, fetch.rest)'
    BY <2>2, <2>3 DEF Right, Selected, Exists, Version, StatusOf, CardOf
  <2>7. QED
    BY <2>4, <2>5, <2>6 DEF AnswerGood
<1>4. QED
  BY <1>1, <1>2, <1>3

LEMMA EmptyList ==
  ASSUME MInv, items' = <<>>, args' = args
  PROVE  items' \in Seq(Card) /\ CardsTrue'
<1>1. args.limit \in Nat
  BY DEF MInv, TypeOK, ListArgs
<1>2. QED
  BY <1>1 DEF CardsTrue, ProperList

LEMMA MissedKeeps ==
  ASSUME MInv, NEW ids \in SUBSET Auction, Missed(ids)
  PROVE  lost' \in SUBSET Auction /\ lost \subseteq lost' /\ (entry = "loaded" => ids \subseteq lost')
  BY DEF MInv, TypeOK, Missed

LEMMA SendKeeps ==
  ASSUME MInv, NEW card \in Card, WasTrue(card), Send(card),
         statuses' = statuses, socket' = socket
  PROVE  /\ news' \in Seq(Card) /\ NewsTrue'
         /\ lost' \in SUBSET Auction /\ lost \subseteq lost'
         /\ \A i \in DOMAIN news : i \in DOMAIN news' /\ news'[i] = news[i]
         /\ entry = "loaded" => \/ card.id \in lost'
                                \/ \E i \in DOMAIN news' : news'[i] = card
<1>1. news \in Seq(Card) /\ lost \in SUBSET Auction /\ card.id \in Auction /\ NewsTrue
  BY DEF MInv, TypeOK, Card
<1>2. CASE socket = "up"
  <2>1. news' = Append(news, card) /\ lost' = lost
    BY <1>2 DEF Send
  <2>2. /\ news' \in Seq(Card) /\ DOMAIN news' = 1..(Len(news) + 1) /\ DOMAIN news = 1..Len(news)
        /\ Len(news) \in Nat /\ news'[Len(news) + 1] = card
        /\ \A i \in 1..Len(news) : news'[i] = news[i]
    BY <1>1, <2>1
  <2>3. Len(news) + 1 \in DOMAIN news' /\ DOMAIN news \subseteq DOMAIN news'
    BY <2>2
  <2>4. ASSUME NEW i \in DOMAIN news' PROVE WasTrue(news'[i])
    <3>1. i \in DOMAIN news \/ i = Len(news) + 1
      BY <2>2
    <3>2. QED
      BY <1>1, <2>2, <3>1 DEF NewsTrue
  <2>5. NewsTrue'
    BY <1>2, <2>4 DEF NewsTrue, WasTrue
  <2>6. QED
    BY <1>1, <2>1, <2>2, <2>3, <2>5
<1>3. CASE socket # "up"
  <2>1. news' = news /\ Missed({card.id})
    BY <1>3 DEF Send
  <2>2. NewsTrue'
    BY <2>1, SameNews
  <2>3. QED
    BY <1>1, <2>1, <2>2, MissedKeeps
<1>4. QED
  BY <1>2, <1>3

\* What has been sent is still to come when more is sent.
LEMMA MoreToCome ==
  ASSUME statuses' = statuses,
         \A i \in DOMAIN news : i \in DOMAIN news' /\ news'[i] = news[i],
         NEW a \in Auction, ToCome(a), a \in unsent => a \in unsent', a \in newborn => a \in newborn'
  PROVE  ToCome(a)'
  BY DEF ToCome, Version, StatusOf, CardOf

-----------------------------------------------------------------------------
(* The steps of the API. *)

LEMMA ChangeKeeps ==
  ASSUME MInv, NEW a \in Auction, NEW from, NEW to \in Status, Change(a, from, to)
  PROVE  MInv'
<1>1. /\ Write(a, to) /\ unsent' = unsent \union {a} /\ newborn' = newborn
      /\ post' = post /\ faults' = faults
  BY DEF Change
<1>2. /\ news' = news /\ socket' = socket /\ args' = args /\ subscribed' = subscribed
      /\ entry' = entry /\ items' = items /\ stale' = stale /\ lost' = lost /\ cut' = cut
  BY <1>1 DEF Write
<1>3. /\ statuses' \in [Auction -> Seq(Status)] /\ newer' \in [Auction -> SUBSET Auction]
      /\ fetch' \in FetchState
      /\ \A b \in Auction : Exists(b) => Exists(b)'
      /\ Exists(a)'
      /\ \A b \in Auction \ {a} : CardOf(b)' = CardOf(b) /\ Version(b)' = Version(b)
      /\ NewsTrue' /\ AnswerGood' /\ CardsTrue'
      /\ \A b \in Auction \ {a} : RightAbout(b) => RightAbout(b)'
  BY <1>1, WriteKeeps
<1>4. TypeOK'
  BY <1>1, <1>2, <1>3 DEF MInv, TypeOK
<1>5. \A b \in newborn' \union unsent' : Exists(b)'
  BY <1>1, <1>3 DEF MInv, TypeOK
<1>6. Tracked'
  <2> SUFFICES ASSUME entry = "loaded", NEW b \in Auction \ lost
               PROVE  ToCome(b)' \/ RightAbout(b)'
    BY <1>2 DEF Tracked
  <2>1. CASE b = a
    BY <1>1, <2>1 DEF ToCome
  <2>2. CASE b # a
    <3>1. ToCome(b) \/ RightAbout(b)
      BY DEF MInv, Tracked
    <3>2. ToCome(b) => ToCome(b)'
      BY <1>1, <1>2, <1>3, <2>2 DEF ToCome
    <3>3. QED
      BY <1>3, <2>2, <3>1, <3>2
  <2>3. QED
    BY <2>1, <2>2
<1>7. QED
  BY <1>3, <1>4, <1>5, <1>6 DEF MInv

LEMMA InsertKeeps ==
  ASSUME MInv, NEW a \in Auction, NEW status \in Status, Insert(a, status), post' \in PostState
  PROVE  MInv'
<1>1. /\ Write(a, status) /\ newborn' = newborn \union {a} /\ unsent' = unsent
      /\ faults' = faults /\ ~Exists(a)
  BY DEF Insert
<1>2. /\ news' = news /\ socket' = socket /\ args' = args /\ subscribed' = subscribed
      /\ entry' = entry /\ items' = items /\ stale' = stale /\ lost' = lost /\ cut' = cut
  BY <1>1 DEF Write
<1>3. /\ statuses' \in [Auction -> Seq(Status)] /\ newer' \in [Auction -> SUBSET Auction]
      /\ fetch' \in FetchState
      /\ \A b \in Auction : Exists(b) => Exists(b)'
      /\ Exists(a)' /\ Version(a)' = 0
      /\ \A b \in Auction \ {a} : CardOf(b)' = CardOf(b) /\ Version(b)' = Version(b)
      /\ NewsTrue' /\ AnswerGood' /\ CardsTrue'
      /\ \A b \in Auction \ {a} : RightAbout(b) => RightAbout(b)'
  BY <1>1, WriteKeeps
<1>4. TypeOK'
  BY <1>1, <1>2, <1>3 DEF MInv, TypeOK
<1>5. \A b \in newborn' \union unsent' : Exists(b)'
  BY <1>1, <1>3 DEF MInv, TypeOK
<1>6. Tracked'
  <2> SUFFICES ASSUME entry = "loaded", NEW b \in Auction \ lost
               PROVE  ToCome(b)' \/ RightAbout(b)'
    BY <1>2 DEF Tracked
  <2>1. CASE b = a
    BY <1>1, <1>3, <2>1 DEF ToCome
  <2>2. CASE b # a
    <3>1. ToCome(b) \/ RightAbout(b)
      BY DEF MInv, Tracked
    <3>2. ToCome(b) => ToCome(b)'
      BY <1>1, <1>2, <1>3, <2>2 DEF ToCome
    <3>3. QED
      BY <1>3, <2>2, <3>1, <3>2
  <2>3. QED
    BY <2>1, <2>2
<1>7. QED
  BY <1>3, <1>4, <1>5, <1>6 DEF MInv

\* A card is sent for a, and a taken from those to be announced.
LEMMA SendingKeeps ==
  ASSUME MInv, NEW a \in Auction, NEW card \in Card, card.id = a, WasTrue(card), Send(card),
         UNCHANGED <<statuses, newer, socket, args, subscribed, entry, items, fetch, stale, cut>>,
         newborn' \in {newborn, newborn \ {a}}, unsent' \in {unsent, unsent \ {a}},
         newborn' # newborn => Version(a) # 0 \/ card = CardOf(a),
         unsent' # unsent => card = CardOf(a),
         post' \in PostState, faults' = faults
  PROVE  MInv'
<1>1. /\ news' \in Seq(Card) /\ NewsTrue'
      /\ lost' \in SUBSET Auction /\ lost \subseteq lost'
      /\ \A i \in DOMAIN news : i \in DOMAIN news' /\ news'[i] = news[i]
      /\ entry = "loaded" => a \in lost' \/ \E i \in DOMAIN news' : news'[i] = card
  BY SendKeeps
<1>2. CardsTrue' /\ \A b \in Auction : RightAbout(b)' <=> RightAbout(b)
  BY SameList
<1>3. fetch' \in FetchState /\ AnswerGood'
  BY FetchStep
<1>4. TypeOK'
  BY <1>1, <1>3 DEF MInv, TypeOK
<1>5. \A b \in newborn' \union unsent' : Exists(b)'
  BY SameAuctions DEF MInv, TypeOK
<1>6. Tracked'
  <2> SUFFICES ASSUME entry = "loaded", NEW b \in Auction \ lost'
               PROVE  ToCome(b)' \/ RightAbout(b)'
    BY DEF Tracked
  <2>1. ToCome(b) \/ RightAbout(b)
    BY <1>1 DEF MInv, Tracked
  <2>2. CASE b = a
    <3>1. PICK i \in DOMAIN news' : news'[i] = card
      BY <1>1, <2>2
    <3>2. CASE card = CardOf(a)
      <4>1. news'[i].id = a /\ news'[i] = CardOf(a)'
        BY <3>1, <3>2, SameAuctions
      <4>2. QED
        BY <2>2, <4>1 DEF ToCome
    <3>3. CASE card # CardOf(a)
      <4>1. unsent' = unsent
        BY <3>3
      <4>2. ToCome(a) => ToCome(a)'
        <5>1. CASE newborn' = newborn
          BY <1>1, <4>1, <5>1, MoreToCome
        <5>2. CASE newborn' # newborn
          <6>1. Version(a) # 0
            BY <3>3, <5>2
          <6>2. QED
            BY <1>1, <4>1, <6>1 DEF ToCome, CardOf, StatusOf, Version
        <5>3. QED
          BY <5>1, <5>2
      <4>3. QED
        BY <1>2, <2>1, <2>2, <4>2
    <3>4. QED
      BY <3>2, <3>3
  <2>3. CASE b # a
    <3>1. (b \in unsent => b \in unsent') /\ (b \in newborn => b \in newborn')
      BY <2>3
    <3>2. ToCome(b) => ToCome(b)'
      BY <1>1, <3>1, MoreToCome
    <3>3. QED
      BY <1>2, <2>1, <3>2
  <2>4. QED
    BY <2>2, <2>3
<1>7. QED
  BY <1>1, <1>2, <1>3, <1>4, <1>5, <1>6 DEF MInv

\* A step after which some auctions will not be heard of.
LEMMA LosingKeeps ==
  ASSUME MInv, NEW ids \in SUBSET Auction, Missed(ids),
         UNCHANGED <<statuses, newer, args, subscribed, entry, items, fetch, stale, cut>>,
         newborn' \subseteq newborn, newborn \subseteq newborn' \union ids,
         unsent' \subseteq unsent, unsent \subseteq unsent' \union ids,
         \/ news' = news /\ socket' = socket
         \/ news' = <<>> /\ socket' = "connecting" /\ IdsOf(news) \subseteq ids,
         post' \in PostState, faults' \in 0..MaxFaults
  PROVE  MInv'
<1>1. lost' \in SUBSET Auction /\ lost \subseteq lost' /\ (entry = "loaded" => ids \subseteq lost')
  BY MissedKeeps
<1>2. CardsTrue' /\ \A b \in Auction : RightAbout(b)' <=> RightAbout(b)
  BY SameList
<1>3. fetch' \in FetchState /\ AnswerGood'
  BY FetchStep
<1>4. news' \in Seq(Card) /\ NewsTrue' /\ socket' \in {"connecting", "up"}
  <2>1. CASE news' = news /\ socket' = socket
    BY <2>1, SameNews DEF MInv, TypeOK
  <2>2. CASE news' = <<>> /\ socket' = "connecting"
    BY <2>2 DEF NewsTrue
  <2>3. QED
    BY <2>1, <2>2
<1>5. TypeOK'
  BY <1>1, <1>3, <1>4 DEF MInv, TypeOK
<1>6. \A b \in newborn' \union unsent' : Exists(b)'
  BY SameAuctions DEF MInv, TypeOK
<1>7. Tracked'
  <2> SUFFICES ASSUME entry = "loaded", NEW b \in Auction \ lost'
               PROVE  ToCome(b)' \/ RightAbout(b)'
    BY DEF Tracked
  <2>1. ToCome(b) \/ RightAbout(b)
    BY <1>1 DEF MInv, Tracked
  <2>2. b \notin ids
    BY <1>1
  <2>3. ToCome(b) => ToCome(b)'
    <3>1. (b \in unsent => b \in unsent') /\ (b \in newborn => b \in newborn')
      BY <2>2
    <3>2. CASE news' = news
      BY <3>1, <3>2, MoreToCome
    <3>3. CASE IdsOf(news) \subseteq ids
      <4>1. \A i \in DOMAIN news : news[i].id # b
        BY <2>2, <3>3 DEF IdsOf
      <4>2. QED
        BY <3>1, <4>1, SameAuctions DEF ToCome
    <3>4. QED
      BY <3>2, <3>3
  <2>4. QED
    BY <1>2, <2>1, <2>3
<1>8. QED
  BY <1>2, <1>3, <1>4, <1>5, <1>6, <1>7 DEF MInv

LEMMA PostTypes == NoPost \in PostState /\ Answered \in PostState
  BY DEF NoPost, Answered, PostState

LEMMA FaultType ==
  ASSUME TypeOK, Fault
  PROVE  faults' \in 0..MaxFaults
  BY DEF TypeOK, Fault

LEMMA SettleType ==
  ASSUME TypeOK, NEW a, Settle(a)
  PROVE  post' \in PostState
  BY PostTypes DEF TypeOK, Settle

LEMMA AuctionsKeep ==
  ASSUME MInv, NEW a \in Auction, Auctions(a), ~PaymentAnswered(a)
  PROVE  MInv'
<1> USE DEF Status
<1>1. CASE BidAccepted(a)
  BY <1>1, ChangeKeeps DEF BidAccepted
<1>2. CASE AuctionStarts(a)
  BY <1>2, ChangeKeeps DEF AuctionStarts
<1>3. CASE AuctionEnds(a)
  BY <1>3, ChangeKeeps DEF AuctionEnds
<1>4. CASE Announce(a)
  <2>1. CardOf(a) \in Card /\ WasTrue(CardOf(a)) /\ CardOf(a).id = a
    BY <1>4, CurrentCard DEF Announce, MInv, TypeOK, CardOf
  <2>2. post' \in PostState
    BY <1>4 DEF Announce, MInv, TypeOK
  <2>3. QED
    BY <1>4, <2>1, <2>2, SendingKeeps DEF Announce
<1>5. CASE JobFails(a)
  <2>1. post' \in PostState /\ faults' \in 0..MaxFaults
    BY <1>5, FaultType DEF JobFails, MInv, TypeOK
  <2>2. QED
    BY <1>5, <2>1, LosingKeeps DEF JobFails
<1>6. CASE AnnouncePayment(a)
  <2>1. CardOf(a) \in Card /\ WasTrue(CardOf(a)) /\ CardOf(a).id = a
    BY <1>6, CurrentCard DEF AnnouncePayment, MInv, CardOf
  <2>2. post' \in PostState
    BY <1>6 DEF AnnouncePayment, MInv, TypeOK
  <2>3. QED
    BY <1>6, <2>1, <2>2, SendingKeeps DEF AnnouncePayment, server
<1>7. CASE OthersCreate(a)
  <2>1. post' \in PostState
    BY <1>7 DEF OthersCreate, MInv, TypeOK
  <2>2. QED
    BY <1>7, <2>1, InsertKeeps DEF OthersCreate
<1>8. CASE CreateAuction(a)
  <2>1. post' \in PostState
    BY <1>8 DEF CreateAuction, PostState
  <2>2. PICK status \in Status : Insert(a, status)
    BY <1>8 DEF CreateAuction, InitialStatus
  <2>3. QED
    BY <2>1, <2>2, InsertKeeps
<1>9. CASE AnnounceBirth(a)
  <2> DEFINE card == [id |-> a, status |-> statuses[a][1], version |-> 0]
  <2>1. card \in Card /\ WasTrue(card) /\ card.id = a /\ (Version(a) = 0 => card = CardOf(a))
    BY <1>9, FirstCard DEF AnnounceBirth, MInv, TypeOK
  <2>2. post' \in PostState
    BY <1>9, SettleType DEF AnnounceBirth, MInv
  <2>3. Send(card)
    BY <1>9 DEF AnnounceBirth
  <2> HIDE DEF card
  <2>4. QED
    BY <1>9, <2>1, <2>2, <2>3, SendingKeeps DEF AnnounceBirth
<1>10. CASE BirthFails(a)
  <2>1. post' \in PostState /\ faults' \in 0..MaxFaults
    BY <1>10, FaultType, SettleType DEF BirthFails, MInv
  <2>2. QED
    BY <1>10, <2>1, LosingKeeps DEF BirthFails
<1>11. QED
  BY <1>1, <1>2, <1>3, <1>4, <1>5, <1>6, <1>7, <1>8, <1>9, <1>10 DEF Auctions

-----------------------------------------------------------------------------
(* The steps of the tab. *)

\* The list stays, a request may start or end.
LEMMA ListStays ==
  ASSUME MInv, UNCHANGED <<server, news, socket, args, items, lost, cut>>,
         Request \/ fetch' = NoFetch \/ fetch' = fetch,
         entry' = entry \/ entry' = "empty",
         subscribed' \in BOOLEAN, stale' \in BOOLEAN, post' \in PostState, faults' \in 0..MaxFaults
  PROVE  MInv'
<1> USE DEF server
<1>1. CardsTrue' /\ \A a \in Auction : RightAbout(a)' <=> RightAbout(a)
  BY SameList
<1>2. fetch' \in FetchState /\ AnswerGood'
  BY FetchStep
<1>3. TypeOK'
  BY <1>2 DEF MInv, TypeOK
<1>4. \A a \in newborn' \union unsent' : Exists(a)'
  BY SameAuctions DEF MInv, TypeOK
<1>5. NewsTrue'
  BY SameNews
<1>6. Tracked'
  BY <1>1, SameToCome DEF MInv, Tracked
<1>7. QED
  BY <1>1, <1>2, <1>3, <1>4, <1>5, <1>6 DEF MInv

LEMMA ListGoes ==
  ASSUME MInv, UNCHANGED <<server, news, socket, args>>, NoEntry,
         subscribed' \in BOOLEAN, post' \in PostState, faults' \in 0..MaxFaults
  PROVE  MInv'
<1> USE DEF server, NoEntry
<1>1. items' \in Seq(Card) /\ CardsTrue'
  BY EmptyList
<1>2. fetch' \in FetchState /\ AnswerGood'
  BY FetchStep
<1>3. TypeOK'
  BY <1>1, <1>2 DEF MInv, TypeOK
<1>4. \A a \in newborn' \union unsent' : Exists(a)'
  BY SameAuctions DEF MInv, TypeOK
<1>5. NewsTrue'
  BY SameNews
<1>6. Tracked'
  BY DEF Tracked
<1>7. QED
  BY <1>1, <1>2, <1>3, <1>4, <1>5, <1>6 DEF MInv

LEMMA ListArrives ==
  ASSUME MInv, UNCHANGED <<server, news, socket, args, subscribed, post, faults>>,
         fetch.stage = "read", Fetched
  PROVE  MInv'
<1> USE DEF server
<1>1. /\ entry' = "loaded" /\ items' = fetch.page /\ lost' = fetch.behind /\ cut' = fetch.rest
      /\ Request \/ fetch' = NoFetch
      /\ stale' = FALSE
  BY DEF Fetched
<1>2. fetch' \in FetchState /\ AnswerGood'
  BY <1>1, FetchStep
<1>3. /\ fetch.page \in Seq(Card) /\ fetch.behind \in SUBSET Auction /\ fetch.rest \in SUBSET Auction
      /\ ProperList(fetch.page)
      /\ \A a \in Auction \ fetch.behind : Right(a, fetch.page, fetch.rest)
  BY DEF MInv, TypeOK, FetchState, AnswerGood
<1>4. TypeOK'
  BY <1>1, <1>2, <1>3 DEF MInv, TypeOK
<1>5. CardsTrue'
  BY <1>1, <1>3 DEF CardsTrue, ProperList, WasTrue
<1>6. \A a \in newborn' \union unsent' : Exists(a)'
  BY SameAuctions DEF MInv, TypeOK
<1>7. NewsTrue'
  BY SameNews
<1>8. \A a \in Auction \ lost' : RightAbout(a)'
  BY <1>1, <1>3 DEF RightAbout, Right, Selected, Exists, Version, StatusOf, CardOf
<1>9. QED
  BY <1>2, <1>4, <1>5, <1>6, <1>7, <1>8 DEF MInv, Tracked

LEMMA InvalidateKeeps ==
  ASSUME MInv, UNCHANGED <<server, news, socket, args, subscribed, faults>>, Invalidate,
         post' \in PostState
  PROVE  MInv'
<1>1. subscribed' \in BOOLEAN /\ faults' \in 0..MaxFaults /\ stale \in BOOLEAN
  BY DEF MInv, TypeOK
<1>2. CASE NoEntry
  BY <1>1, <1>2, ListGoes
<1>3. CASE ~NoEntry
  <2>1. /\ UNCHANGED <<items, lost, cut, entry>>
        /\ Request \/ fetch' = fetch
        /\ stale' \in {stale, TRUE}
    BY <1>3 DEF Invalidate
  <2>2. QED
    BY <1>1, <2>1, ListStays
<1>4. QED
  BY <1>2, <1>3

LEMMA HearKeeps ==
  ASSUME MInv, Hear
  PROVE  MInv'
<1> DEFINE card == Head(news)
           others == IdsOf(items) \ {card.id}
<1>1. /\ news # <<>> /\ news' = Tail(news)
      /\ UNCHANGED <<statuses, newer, newborn, unsent, socket, args, subscribed, entry, fetch,
                     stale, post, faults>>
  BY DEF Hear, server
<1>2. news \in Seq(Card) /\ NewsTrue /\ items \in Seq(Card) /\ args \in Args /\ CardsTrue
      /\ lost \in SUBSET Auction /\ cut \in SUBSET Auction
  BY DEF MInv, TypeOK
<1>3. /\ card \in Card /\ card = news[1] /\ 1 \in DOMAIN news
      /\ news' \in Seq(Card) /\ DOMAIN news' = 1..(Len(news) - 1) /\ DOMAIN news = 1..Len(news)
      /\ Len(news) \in Nat \ {0} /\ \A i \in DOMAIN news' : news'[i] = news[i + 1]
  BY <1>1, <1>2
<1> HIDE DEF card
<1>4. WasTrue(card)
  BY <1>2, <1>3 DEF NewsTrue
<1>5. Exists(card.id) /\ card.id \in Auction
  BY <1>3, <1>4, CardExists DEF MInv
<1>6. NewsTrue'
  <2>1. \A i \in DOMAIN news' : i + 1 \in DOMAIN news
    BY <1>3
  <2>2. QED
    BY <1>1, <1>2, <1>3, <2>1 DEF NewsTrue, WasTrue
<1>7. \A b \in newborn' \union unsent' : Exists(b)'
  BY <1>1, SameAuctions DEF MInv, TypeOK
<1>8. fetch' \in FetchState /\ AnswerGood'
  BY <1>1, FetchStep
<1>9. CASE entry # "loaded"
  <2>1. UNCHANGED <<items, lost, cut>>
    BY <1>9 DEF Hear
  <2>2. CardsTrue'
    BY <1>1, <2>1, SameList
  <2>3. TypeOK'
    BY <1>1, <1>3, <1>8, <2>1 DEF MInv, TypeOK
  <2>4. Tracked'
    BY <1>1, <1>9 DEF Tracked
  <2>5. QED
    BY <1>6, <1>7, <1>8, <2>2, <2>3, <2>4 DEF MInv
<1>10. CASE entry = "loaded"
  <2>1. /\ items' = applyMarketplaceUpdate(items, card)
        /\ lost' = IF card = CardOf(card.id) THEN lost \ {card.id} ELSE lost \union {card.id}
        /\ cut' = (cut \ {card.id}) \union (others \ IdsOf(items'))
    BY <1>10 DEF Hear, card
  <2>2. Distinct(items) /\ Len(items) <= args.limit
    BY <1>2 DEF CardsTrue, ProperList, Distinct
  <2>3. /\ items' \in Seq(Card) /\ Distinct(items') /\ Len(items') <= args.limit
        /\ \A i \in DOMAIN items' :
             \/ items'[i] = card /\ matchesList(card)
             \/ items'[i].id # card.id /\ \E j \in DOMAIN items : items'[i] = items[j]
        /\ matchesList(card) => card.id \in IdsOf(items')
    <3>1. items' = applyMarketplaceUpdate(items, card)
      BY <2>1
    <3>2. items \in Seq(Card) /\ args \in Args /\ card \in Card
      BY <1>2, <1>3
    <3>3. Replaced(items', items, card)
      BY <2>2, <3>1, <3>2, Updated
    <3>4. QED
      BY <3>3, Zenon DEF Replaced
  <2>4. ASSUME NEW i \in DOMAIN items'
        PROVE  /\ WasTrue(items'[i])
               /\ args.status \in {"any", items'[i].status}
               /\ args.search => items'[i].id \in Indexed \union Contains
    <3>1. CASE items'[i] = card /\ matchesList(card)
      BY <1>4, <3>1 DEF matchesList
    <3>2. CASE \E j \in DOMAIN items : items'[i] = items[j]
      BY <1>2, <3>2 DEF CardsTrue, ProperList
    <3>3. QED
      BY <2>3, <3>1, <3>2
  <2>5. CardsTrue'
    BY <1>1, <2>3, <2>4 DEF CardsTrue, ProperList, Distinct, WasTrue
  <2>6. IdsOf(items) \subseteq Auction
    BY <1>2, IdsAreAuctions
  <2>7. lost' \in SUBSET Auction /\ cut' \in SUBSET Auction
    BY <1>2, <1>5, <2>1, <2>6
  <2>8. TypeOK'
    BY <1>1, <1>3, <1>8, <2>3, <2>7 DEF MInv, TypeOK
  <2>9. Tracked'
    <3> SUFFICES ASSUME NEW b \in Auction \ lost'
                 PROVE  ToCome(b)' \/ RightAbout(b)'
      BY DEF Tracked
    <3>1. CardOf(b)' = CardOf(b) /\ (Selected(b)' <=> Selected(b))
      BY <1>1 DEF CardOf, StatusOf, Version, Selected, Exists
    <3>2. CASE b = card.id
      <4>1. card = CardOf(b)
        BY <2>1, <3>2
      <4>2. \A i \in DOMAIN items' : items'[i].id = b => items'[i] = CardOf(b)'
        BY <2>3, <3>1, <3>2, <4>1
      <4>3. ASSUME Selected(b), args.search => b \in Contains
            PROVE  b \in IdsOf(items')
        <5>1. matchesList(card)
          BY <3>2, <4>1, <4>3 DEF matchesList, Selected, CardOf
        <5>2. QED
          BY <2>3, <3>2, <5>1
      <4>4. QED
        BY <1>1, <3>1, <4>2, <4>3 DEF RightAbout, Right, IdsOf
    <3>3. CASE b # card.id
      <4>1. b \notin lost
        BY <2>1, <3>3
      <4>2. CASE ToCome(b)
        <5>1. CASE b \in unsent \/ (b \in newborn /\ Version(b) = 0)
          BY <1>1, <5>1 DEF ToCome, Version
        <5>2. CASE \E i \in DOMAIN news : news[i].id = b /\ news[i] = CardOf(b)
          <6>1. PICK i \in DOMAIN news : news[i].id = b /\ news[i] = CardOf(b)
            BY <5>2
          <6>2. i # 1
            BY <1>3, <3>3, <6>1
          <6>3. i - 1 \in DOMAIN news' /\ news'[i - 1] = news[i]
            BY <1>3, <6>2
          <6>4. QED
            BY <3>1, <6>1, <6>3 DEF ToCome
        <5>3. QED
          BY <4>2, <5>1, <5>2 DEF ToCome
      <4>3. CASE RightAbout(b)
        <5>1. \A i \in DOMAIN items' : items'[i].id = b => items'[i] = CardOf(b)'
          BY <2>3, <3>1, <3>3, <4>3 DEF RightAbout, Right
        <5>2. ASSUME Selected(b), args.search => b \in Contains, b \notin cut'
              PROVE  b \in IdsOf(items')
          <6>1. b \notin cut
            BY <2>1, <3>3, <5>2
          <6>2. b \in IdsOf(items)
            BY <4>3, <5>2, <6>1 DEF RightAbout, Right
          <6>3. QED
            BY <2>1, <3>3, <5>2, <6>2
        <5>3. QED
          BY <1>1, <3>1, <5>1, <5>2 DEF RightAbout, Right, IdsOf
      <4>4. QED
        BY <1>10, <4>1, <4>2, <4>3 DEF MInv, Tracked
    <3>4. QED
      BY <3>2, <3>3
  <2>10. QED
    BY <1>6, <1>7, <1>8, <2>5, <2>8, <2>9 DEF MInv
<1>11. QED
  BY <1>9, <1>10

LEMMA ConnectKeeps ==
  ASSUME MInv, Connect
  PROVE  MInv'
<1> USE DEF server, client
<1>1. UNCHANGED <<server, news, args, client, post, faults>> /\ socket' = "up"
  BY DEF Connect
<1>2. CardsTrue' /\ \A a \in Auction : RightAbout(a)' <=> RightAbout(a)
  BY <1>1, SameList
<1>3. fetch' \in FetchState /\ AnswerGood'
  BY <1>1, FetchStep
<1>4. TypeOK'
  BY <1>1 DEF MInv, TypeOK
<1>5. \A a \in newborn' \union unsent' : Exists(a)'
  BY <1>1, SameAuctions DEF MInv, TypeOK
<1>6. NewsTrue'
  BY <1>1 DEF MInv, NewsTrue, WasTrue
<1>7. Tracked'
  BY <1>1, <1>2, SameToCome DEF MInv, Tracked
<1>8. QED
  BY <1>2, <1>3, <1>4, <1>5, <1>6, <1>7 DEF MInv

LEMMA StepKeeps ==
  ASSUME MInv, [Next]_vars
  PROVE  MInv'
<1>0. /\ subscribed \in BOOLEAN /\ stale \in BOOLEAN /\ post \in PostState
      /\ faults \in 0..MaxFaults /\ IdsOf(news) \in SUBSET Auction
      /\ newborn \in SUBSET Auction /\ unsent \in SUBSET Auction
  BY IdsAreAuctions DEF MInv, TypeOK
<1>1. ASSUME NEW a \in Auction, Auctions(a) PROVE MInv'
  <2>1. CASE PaymentAnswered(a)
    BY <1>0, <2>1, InvalidateKeeps DEF PaymentAnswered
  <2>2. CASE ~PaymentAnswered(a)
    BY <1>1, <2>2, AuctionsKeep
  <2>3. QED
    BY <2>1, <2>2
<1>2. CASE RefuseCreation
  BY <1>0, <1>2, PostTypes, ListStays DEF RefuseCreation, server, client
<1>3. CASE LoseCreation
  <2>1. faults' \in 0..MaxFaults
    BY <1>3, FaultType DEF LoseCreation, MInv
  <2>2. QED
    BY <1>0, <1>3, <2>1, PostTypes, ListStays DEF LoseCreation, server, client
<1>4. CASE Arrive
  <2>1. CASE NoEntry
    BY <1>0, <1>4, <2>1, ListGoes DEF Arrive
  <2>2. CASE ~NoEntry
    BY <1>4, <2>2, ListArrives DEF Arrive
  <2>3. QED
    BY <2>1, <2>2
<1>5. CASE FetchFails
  <2>1. faults' \in 0..MaxFaults
    BY <1>5, FaultType DEF FetchFails, MInv
  <2>2. CASE NoEntry
    BY <1>0, <1>5, <2>1, <2>2, ListGoes DEF FetchFails
  <2>3. CASE ~NoEntry
    BY <1>0, <1>5, <2>1, <2>3, ListStays DEF FetchFails
  <2>4. QED
    BY <2>2, <2>3
<1>6. CASE OpenPage
  BY <1>0, <1>6, ListStays DEF OpenPage
<1>7. CASE LeavePage
  BY <1>0, <1>7, ListStays DEF LeavePage
<1>8. CASE Evict
  BY <1>0, <1>8, ListGoes DEF Evict
<1>9. CASE CreationAnswered
  BY <1>9, PostTypes, InvalidateKeeps DEF CreationAnswered
<1>10. CASE Hear
  BY <1>10, HearKeeps
<1>11. CASE Connect
  BY <1>11, ConnectKeeps
<1>12. CASE Disconnect
  <2>1. faults' \in 0..MaxFaults
    BY <1>12, FaultType DEF Disconnect, MInv
  <2>2. /\ Missed({} \union IdsOf(news)) /\ news' = <<>> /\ socket' = "connecting"
        /\ UNCHANGED <<server, args, subscribed, entry, items, fetch, stale, cut, post>>
    BY <1>12 DEF Disconnect, Dropped
  <2>3. {} \union IdsOf(news) \in SUBSET Auction
    BY <1>0
  <2>4. QED
    BY <1>0, <2>1, <2>2, <2>3, LosingKeeps DEF server
<1>13. CASE Crash
  <2>1. faults' \in 0..MaxFaults
    BY <1>13, FaultType DEF Crash, MInv
  <2>2. post' \in PostState
    BY <1>0, <1>13, PostTypes DEF Crash
  <2>3. CASE socket = "up"
    <3> DEFINE ids == newborn \union unsent \union IdsOf(news)
    <3>1. Missed(ids) /\ news' = <<>> /\ socket' = "connecting"
      BY <1>13, <2>3 DEF Crash, Dropped
    <3>2. ids \in SUBSET Auction /\ newborn \subseteq ids /\ unsent \subseteq ids
          /\ IdsOf(news) \subseteq ids
      BY <1>0
    <3> HIDE DEF ids
    <3>3. QED
      BY <1>13, <2>1, <2>2, <3>1, <3>2, LosingKeeps DEF Crash
  <2>4. CASE socket # "up"
    <3>1. Missed(newborn \union unsent) /\ news' = news /\ socket' = socket
      BY <1>13, <2>4 DEF Crash
    <3>2. QED
      BY <1>0, <1>13, <2>1, <2>2, <3>1, LosingKeeps DEF Crash
  <2>5. QED
    BY <2>3, <2>4
<1>14. CASE UNCHANGED vars
  BY <1>0, <1>14, ListStays DEF vars, server, client
<1>15. QED
  BY <1>1, <1>2, <1>3, <1>4, <1>5, <1>6, <1>7, <1>8, <1>9, <1>10, <1>11, <1>12, <1>13, <1>14
  DEF Next

LEMMA InitMInv == Init => MInv
<1> SUFFICES ASSUME Init PROVE MInv
  OBVIOUS
<1>1. TypeOK
  <2>1. fetch \in FetchState /\ <<>> \in Seq(Card) /\ <<>> \in Seq(Status)
    BY DEF Init, FetchState, NoFetch
  <2>2. post \in PostState
    BY PostTypes DEF Init
  <2>3. statuses \in [Auction -> Seq(Status)] /\ newer \in [Auction -> SUBSET Auction]
    BY <2>1 DEF Init
  <2>4. faults \in 0..MaxFaults
    BY MarketAssumption DEF Init
  <2>5. QED
    BY <2>1, <2>2, <2>3, <2>4 DEF Init, TypeOK
<1>2. args.limit \in Nat
  BY DEF Init, ListArgs
<1>3. CardsTrue
  BY <1>2 DEF Init, CardsTrue, ProperList
<1>4. NewsTrue /\ AnswerGood /\ Tracked
  BY DEF Init, NewsTrue, AnswerGood, NoFetch, Tracked
<1>5. QED
  BY <1>1, <1>3, <1>4 DEF Init, MInv

-----------------------------------------------------------------------------
(* Theorems. *)

\* The inductive invariant: what is sent was true, an answer is right about
\* what has not changed since, and so is the list about every auction that is
\* not in "lost" and of which no news is to come.
THEOREM MarketInvariant == Spec => []MInv
<1>1. Init => MInv
  BY InitMInv
<1>2. MInv /\ [Next]_vars => MInv'
  BY StepKeeps
<1>3. QED
  BY <1>1, <1>2, PTL DEF Spec

\* Cached lists show no auction twice, keep to their limit and filter, and show
\* only states that auctions were in.
THEOREM ListsAreTrue == Spec => []CardsTrue
<1>1. MInv => CardsTrue
  BY DEF MInv
<1>2. QED
  BY <1>1, MarketInvariant, PTL

\* With nothing under way a cached list is up to date but for the named losses.
THEOREM QuietListsAreRight == Spec => []QuietListRight
<1>1. MInv => QuietListRight
  <2> SUFFICES ASSUME MInv, Quiet, NEW a \in Auction \ lost PROVE RightAbout(a)
    BY DEF QuietListRight
  <2>1. ~ToCome(a)
    BY DEF Quiet, ToCome
  <2>2. QED
    BY <2>1 DEF Quiet, MInv, Tracked
<1>2. QED
  BY <1>1, MarketInvariant, PTL
=============================================================================
