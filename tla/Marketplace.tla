---------------------------- MODULE Marketplace ----------------------------
(***************************************************************************)
(* The public auction list of one browser tab: the answer to GET /auctions *)
(* in the RTK Query cache, the auction:marketplace:update events the API   *)
(* sends every socket, the creation of auctions through the form, and the  *)
(* refetch that a creation causes.                                         *)
(*                                                                         *)
(* HTTP answers and socket events travel separately.  Events arrive in the *)
(* order they were sent, or not at all when the socket is down.  Nothing   *)
(* but the list itself says how old a card is: an event and an answer      *)
(* simply replace what is there.                                           *)
(*                                                                         *)
(* An auction is the sequence of statuses it has had, one for each         *)
(* version.  meta.total, and previousStatus which only serves it, are left *)
(* out.                                                                    *)
(***************************************************************************)
EXTENDS Integers, Sequences, FiniteSets

CONSTANTS
  Auction,      \* the auctions there may be
  Args,         \* the lists a page may ask for
  Indexed,      \* the auctions that $text finds for the searched words
  Contains,     \* the auctions whose title or description contains them
  Form,         \* what may be filled into the form
  MaxSafe,      \* the largest safe integer
  MaxVersion,   \* bound: versions of an auction
  MaxFaults     \* bound: lost connections, crashes, failed fetches and inserts

\* Nothing ever sets the fourth, CANCELLED.
Status == {"UPCOMING", "ACTIVE", "COMPLETED"}
ListArgs == [limit : Nat \ {0}, status : Status \union {"any"}, search : BOOLEAN]

\* What is filled in.  Title and description hold text or only blanks; amounts
\* are in minor units, which is the step of their fields; the image may be a
\* URL, one without the dotted host name the API wants, or a file.
FormInput ==
  [text : BOOLEAN, starting : Int, increment : Int, minutes : Int,
   start : {"now", "past", "future"},
   image : {"none", "url", "localUrl", "file"}, bytes : Nat]

ASSUME MarketAssumption ==
  /\ Args \subseteq ListArgs
  /\ Indexed \subseteq Auction /\ Contains \subseteq Auction
  /\ Form \subseteq FormInput
  /\ MaxSafe \in Nat /\ MaxVersion \in Nat /\ MaxFaults \in Nat

VARIABLES
  statuses,    \* statuses[a]: the statuses of a so far; empty before it exists
  newer,       \* newer[a]: the auctions whose updatedAt is later than a's
  newborn,     \* auctions whose AUCTION_CREATED event is being written
  unsent,      \* auctions whose last change is not announced yet
  news,        \* the events on their way to the tab
  socket,      \* "connecting" or "up"
  args,        \* the list this is about
  subscribed,  \* a page with the list is open
  entry,       \* the cache entry: "none", "empty" (no answer yet) or "loaded"
  items,       \* its cards
  fetch,       \* the request for the list
  stale,       \* LIST was invalidated during a fetch
  post,        \* the request of the creation form
  faults,
  lost,        \* history: see QuietListRight
  cut          \* history: auctions that the limit cut off the list

server == <<statuses, newer, newborn, unsent>>
client == <<subscribed, entry, items, fetch, stale, lost, cut>>
vars == <<server, news, socket, args, client, post, faults>>

-----------------------------------------------------------------------------
(* Auctions, cards and lists. *)

Exists(a) == statuses[a] # <<>>
Version(a) == Len(statuses[a]) - 1
StatusOf(a) == statuses[a][Len(statuses[a])]

Card == [id : Auction, status : Status, version : Nat]
CardOf(a) == [id |-> a, status |-> StatusOf(a), version |-> Version(a)]
IdsOf(cards) == {cards[i].id : i \in DOMAIN cards}

\* What GET /auctions selects, and what the page thinks belongs to the list.
Selected(a) ==
  /\ Exists(a)
  /\ args.status \in {"any", StatusOf(a)}
  /\ args.search => a \in Indexed

matchesList(card) ==
  /\ args.status \in {"any", card.status}
  /\ args.search => card.id \in Contains

\* The first page of the selected auctions, the last updated first.
FirstPage(page) ==
  LET selected == {a \in Auction : Selected(a)}
      before(i) == {page[j].id : j \in 1..(i - 1)}
  IN /\ \A i \in DOMAIN page :
          /\ page[i].id \in selected \ before(i)
          /\ page[i] = CardOf(page[i].id)
          /\ newer[page[i].id] \intersect selected \subseteq before(i)
     /\ Len(page) = args.limit \/ selected = IdsOf(page)

Pages == UNION {[1..n -> {CardOf(a) : a \in {b \in Auction : Exists(b)}}] : n \in 0..args.limit}

\* The list without the card of this auction, which it shows at most once.
Without(cards, id) ==
  IF id \in IdsOf(cards)
  THEN LET i == CHOOSE k \in DOMAIN cards : cards[k].id = id
       IN SubSeq(cards, 1, i - 1) \o SubSeq(cards, i + 1, Len(cards))
  ELSE cards

Truncated(cards) == IF Len(cards) > args.limit THEN SubSeq(cards, 1, args.limit) ELSE cards

\* Variants that would be wrong: the old card stays; only shown cards change.
applyMarketplaceUpdateInFront(cards, card) ==
  IF matchesList(card) THEN Truncated(<<card>> \o cards) ELSE Without(cards, card.id)
applyMarketplaceUpdateIfShown(cards, card) ==
  IF matchesList(card) /\ card.id \in IdsOf(cards)
  THEN Truncated(<<card>> \o Without(cards, card.id))
  ELSE Without(cards, card.id)

\* The update takes the place of the card whatever the versions are.
applyMarketplaceUpdate(cards, card) ==
  IF matchesList(card)
  THEN Truncated(<<card>> \o Without(cards, card.id))
  ELSE Without(cards, card.id)

-----------------------------------------------------------------------------
(* The creation form, and what the API makes of it. *)

\* The constraints of the fields and the checks of the page.  Blanks pass.
FormAccepts(f) ==
  /\ f.starting >= 0 /\ f.increment >= 1
  /\ f.minutes >= 1 /\ f.minutes * 60 <= MaxSafe
  /\ f.image # "none"
  /\ f.image = "file" => f.bytes <= 2000000

\* base64, after "data:image/jpeg;base64,"
DataUrlLength(bytes) == 23 + 4 * ((bytes + 2) \div 3)

\* The validators and the checks of the service.
ApiAccepts(f) ==
  /\ f.text
  /\ f.starting \in 0..MaxSafe /\ f.increment \in 1..MaxSafe
  /\ f.minutes * 60 \in 10..(7 * 24 * 60 * 60)
  /\ f.start # "past"
  /\ f.image \in {"url", "file"}
  /\ f.image = "file" => f.bytes > 0 /\ DataUrlLength(f.bytes) <= 2500000

InitialStatus(start) == IF start = "now" THEN "ACTIVE" ELSE "UPCOMING"

-----------------------------------------------------------------------------
(* Initial state. *)

\* The request for the list.  Nothing the tab or the API does before the list
\* is read depends on the request, so it is read as soon as it is sent.
FetchState ==
  [stage : {"idle", "read"},
   page : Seq(Card),                \* the answer
   behind : SUBSET Auction,         \* history: changed since it was read
   rest : SUBSET Auction]           \* history: selected, but beyond the limit
NoFetch == [stage |-> "idle", page |-> <<>>, behind |-> {}, rest |-> {}]

\* A request of the form: the API works on it, then its answer, of whatever
\* kind, is under way.
PostState == [stage : {"idle", "working", "answered"}, born : SUBSET Auction]
NoPost == [stage |-> "idle", born |-> {}]
Answered == [stage |-> "answered", born |-> {}]

Init ==
  /\ statuses = [a \in Auction |-> <<>>]
  /\ newer = [a \in Auction |-> {}]
  /\ newborn = {} /\ unsent = {} /\ news = <<>> /\ socket = "connecting"
  /\ args \in Args
  /\ subscribed = FALSE /\ entry = "none" /\ items = <<>>
  /\ fetch = NoFetch /\ stale = FALSE
  /\ post = NoPost
  /\ faults = 0 /\ lost = {} /\ cut = {}

Fault == faults < MaxFaults /\ faults' = faults + 1

-----------------------------------------------------------------------------
(* The API: auctions change, and every change is announced.  The queue of  *)
(* an auction announces one change before it makes the next; an            *)
(* AUCTION_CREATED announcement is outside the queue.                      *)

\* Announcements that will not be heard.
Missed(ids) == lost' = IF entry = "loaded" THEN lost \union ids ELSE lost

Send(card) ==
  IF socket = "up"
  THEN news' = Append(news, card) /\ lost' = lost
  ELSE news' = news /\ Missed({card.id})

\* The document of a is written with this status.
Write(a, status) ==
  /\ statuses' = [statuses EXCEPT ![a] = Append(@, status)]
  /\ newer' = [b \in Auction |-> IF b = a THEN {} ELSE newer[b] \union {a}]
  /\ fetch' = IF fetch.stage = "read" THEN [fetch EXCEPT !.behind = @ \union {a}] ELSE fetch
  /\ UNCHANGED <<news, socket, args, subscribed, entry, items, stale, lost, cut>>

Change(a, from, to) ==
  /\ Exists(a) /\ StatusOf(a) = from /\ a \notin unsent /\ Version(a) < MaxVersion
  /\ unsent' = unsent \union {a}
  /\ Write(a, to)
  /\ UNCHANGED <<newborn, post, faults>>

BidAccepted(a) == Change(a, "ACTIVE", "ACTIVE")
AuctionStarts(a) == a \notin newborn /\ Change(a, "UPCOMING", "ACTIVE")
AuctionEnds(a) == Change(a, "ACTIVE", "COMPLETED")

\* After an accepted bid, a start or an end.
Announce(a) ==
  /\ a \in unsent /\ unsent' = unsent \ {a}
  /\ Send(CardOf(a))
  /\ UNCHANGED <<statuses, newer, newborn, socket, args, subscribed, entry, items,
                 fetch, stale, cut, post, faults>>

\* What follows the update of the document fails: the change is not announced.
JobFails(a) ==
  /\ Fault
  /\ a \in unsent /\ unsent' = unsent \ {a}
  /\ Missed({a})
  /\ UNCHANGED <<statuses, newer, newborn, news, socket, args, subscribed, entry, items,
                 fetch, stale, cut, post>>

\* After a payment changed; no version comes with it.  Bound: only when nothing
\* else is on its way.
AnnouncePayment(a) ==
  /\ Exists(a) /\ StatusOf(a) = "COMPLETED" /\ a \notin unsent
  /\ news = <<>>
  /\ Send(CardOf(a))
  /\ UNCHANGED <<server, socket, args, subscribed, entry, items, fetch, stale, cut,
                 post, faults>>

\* The document is inserted; its AUCTION_CREATED event follows.
Insert(a, status) ==
  /\ ~Exists(a)
  /\ newborn' = newborn \union {a}
  /\ Write(a, status)
  /\ UNCHANGED <<unsent, faults>>

OthersCreate(a) ==
  /\ \E status \in {"UPCOMING", "ACTIVE"} : Insert(a, status)
  /\ UNCHANGED post

\* The request of a form that was filled in, accepted by the API, refused, or
\* lost on the way.
Submitted == IF post.stage = "idle" THEN {f \in Form : FormAccepts(f)} ELSE {}

CreateAuction(a) ==
  /\ \E status \in {InitialStatus(f.start) : f \in {g \in Submitted : ApiAccepts(g)}} :
       Insert(a, status)
  /\ post' = [stage |-> "working", born |-> {a}]

RefuseCreation ==
  /\ \E f \in Submitted : ~ApiAccepts(f)
  /\ post' = Answered
  /\ UNCHANGED <<server, news, socket, args, client, faults>>

LoseCreation ==
  /\ Fault
  /\ Submitted # {}
  /\ post' = Answered
  /\ UNCHANGED <<server, news, socket, args, client>>

Settle(a) == post' = IF a \in post.born THEN Answered ELSE post

\* The record read at the insert is announced, whatever has happened since.
AnnounceBirth(a) ==
  /\ a \in newborn /\ newborn' = newborn \ {a}
  /\ Send([id |-> a, status |-> statuses[a][1], version |-> 0])
  /\ Settle(a)
  /\ UNCHANGED <<statuses, newer, unsent, socket, args, subscribed, entry, items,
                 fetch, stale, cut, faults>>

\* The AUCTION_CREATED event cannot be written: nothing is announced.
BirthFails(a) ==
  /\ Fault
  /\ a \in newborn /\ newborn' = newborn \ {a}
  /\ Missed({a})
  /\ Settle(a)
  /\ UNCHANGED <<statuses, newer, unsent, news, socket, args, subscribed, entry, items,
                 fetch, stale, cut>>

\* GET /auctions
Request ==
  \E page \in Pages :
    /\ FirstPage(page)
    /\ fetch' = [stage |-> "read", page |-> page, behind |-> {},
                 rest |-> {a \in Auction : Selected(a)} \ IdsOf(page)]

-----------------------------------------------------------------------------
(* The tab. *)

NoEntry ==
  /\ entry' = "none" /\ items' = <<>> /\ fetch' = NoFetch /\ stale' = FALSE
  /\ lost' = {} /\ cut' = {}

\* The list becomes the answer.
Fetched ==
  /\ entry' = "loaded" /\ items' = fetch.page
  /\ lost' = fetch.behind /\ cut' = fetch.rest
  /\ IF stale THEN Request ELSE fetch' = NoFetch
  /\ stale' = FALSE

\* A LIST invalidated meanwhile is fetched again, or dropped without a page.
Arrive ==
  /\ fetch.stage = "read"
  /\ IF stale /\ ~subscribed THEN NoEntry ELSE Fetched
  /\ UNCHANGED <<server, news, socket, args, subscribed, post, faults>>

FetchFails ==
  /\ Fault
  /\ fetch.stage # "idle"
  /\ IF stale /\ ~subscribed THEN NoEntry
     ELSE /\ IF stale THEN Request ELSE fetch' = NoFetch
          /\ stale' = FALSE
          /\ UNCHANGED <<entry, items, lost, cut>>
  /\ UNCHANGED <<server, news, socket, args, subscribed, post>>

OpenPage ==
  /\ ~subscribed /\ subscribed' = TRUE
  /\ entry' = IF entry = "none" THEN "empty" ELSE entry
  /\ IF entry # "loaded" /\ fetch.stage = "idle" THEN Request ELSE fetch' = fetch
  /\ UNCHANGED <<server, news, socket, args, items, stale, lost, cut, post, faults>>

LeavePage ==
  /\ subscribed /\ subscribed' = FALSE
  /\ UNCHANGED <<server, news, socket, args, entry, items, fetch, stale, lost, cut,
                 post, faults>>

\* An entry nobody has used for a minute goes, and its handler with it.
Evict ==
  /\ ~subscribed /\ entry # "none"
  /\ NoEntry
  /\ UNCHANGED <<server, news, socket, args, subscribed, post, faults>>

\* LIST is invalidated: the page fetches it again, after a fetch that is under
\* way; without a page the entry goes.
Invalidate ==
  CASE entry = "none"       -> UNCHANGED <<entry, items, fetch, stale, lost, cut>>
    [] fetch.stage # "idle" -> stale' = TRUE /\ UNCHANGED <<entry, items, fetch, lost, cut>>
    [] entry # "none" /\ fetch.stage = "idle" /\ subscribed ->
         Request /\ UNCHANGED <<entry, items, stale, lost, cut>>
    [] OTHER                -> NoEntry

\* Whatever the answer is.
CreationAnswered ==
  /\ post.stage = "answered" /\ post' = NoPost
  /\ Invalidate
  /\ UNCHANGED <<server, news, socket, args, subscribed, faults>>

\* The winner of an auction has paid, or tried to.
PaymentAnswered(a) ==
  /\ Exists(a) /\ StatusOf(a) = "COMPLETED"
  /\ Invalidate
  /\ UNCHANGED <<server, news, socket, args, subscribed, post, faults>>

\* Only a loaded entry has its handler on the socket.
Hear ==
  /\ news # <<>> /\ news' = Tail(news)
  /\ LET card == Head(news)
         others == IdsOf(items) \ {card.id}
     IN IF entry = "loaded"
        THEN /\ items' = applyMarketplaceUpdate(items, card)
             /\ lost' = IF card = CardOf(card.id) THEN lost \ {card.id} ELSE lost \union {card.id}
             /\ cut' = (cut \ {card.id}) \union (others \ IdsOf(items'))
        ELSE UNCHANGED <<items, lost, cut>>
  /\ UNCHANGED <<server, socket, args, subscribed, entry, fetch, stale, post, faults>>

-----------------------------------------------------------------------------
(* The connection. *)

Connect ==
  /\ socket = "connecting" /\ socket' = "up"
  /\ UNCHANGED <<server, news, args, client, post, faults>>

\* Nothing is sent again, and nothing fetched, when the socket comes back.
Dropped(ids) ==
  /\ socket' = "connecting" /\ news' = <<>>
  /\ Missed(ids \union IdsOf(news))

Disconnect ==
  /\ Fault
  /\ socket = "up" /\ Dropped({})
  /\ UNCHANGED <<server, args, subscribed, entry, items, fetch, stale, cut, post>>

\* The API process stops; what it has not announced is never announced.
Crash ==
  /\ Fault
  /\ newborn' = {} /\ unsent' = {}
  /\ IF socket = "up" THEN Dropped(newborn \union unsent)
     ELSE UNCHANGED <<socket, news>> /\ Missed(newborn \union unsent)
  /\ post' = IF post.stage = "working" THEN Answered ELSE post
  /\ UNCHANGED <<statuses, newer, args, subscribed, entry, items, fetch, stale, cut>>

-----------------------------------------------------------------------------
Auctions(a) ==
  \/ BidAccepted(a) \/ AuctionStarts(a) \/ AuctionEnds(a)
  \/ Announce(a) \/ JobFails(a) \/ AnnouncePayment(a) \/ PaymentAnswered(a)
  \/ OthersCreate(a) \/ CreateAuction(a) \/ AnnounceBirth(a) \/ BirthFails(a)

Next ==
  \/ \E a \in Auction : Auctions(a)
  \/ RefuseCreation \/ LoseCreation
  \/ Arrive \/ FetchFails \/ OpenPage \/ LeavePage \/ Evict
  \/ CreationAnswered \/ Hear
  \/ Connect \/ Disconnect \/ Crash

Spec == Init /\ [][Next]_vars

-----------------------------------------------------------------------------
(* Properties. *)

TypeOK ==
  /\ statuses \in [Auction -> Seq(Status)]
  /\ newer \in [Auction -> SUBSET Auction]
  /\ newborn \subseteq Auction /\ unsent \subseteq Auction
  /\ news \in Seq(Card)
  /\ socket \in {"connecting", "up"}
  /\ args \in Args
  /\ subscribed \in BOOLEAN /\ entry \in {"none", "empty", "loaded"}
  /\ items \in Seq(Card)
  /\ fetch \in FetchState /\ stale \in BOOLEAN
  /\ post \in PostState
  /\ faults \in 0..MaxFaults
  /\ lost \subseteq Auction /\ cut \subseteq Auction

\* A card as its auction once was.
WasTrue(card) ==
  card.version < Len(statuses[card.id]) /\ card.status = statuses[card.id][card.version + 1]

\* A list that could be shown: no auction twice, no more cards than asked for,
\* every card as its auction once was, and belonging to the list as it was.
ProperList(cards) ==
  /\ Len(cards) <= args.limit
  /\ \A i, j \in DOMAIN cards : cards[i].id = cards[j].id => i = j
  /\ \A i \in DOMAIN cards :
       /\ WasTrue(cards[i])
       /\ args.status \in {"any", cards[i].status}
       /\ args.search => cards[i].id \in Indexed \union Contains

\* Whatever answers and events overlap, the list shows no auction twice, keeps
\* to the limit and the filter, and shows no auction as it never was
\* (applyMarketplaceUpdate merges an event into an answer without a version).
CardsTrue == ProperList(items)

\* The list is right about a: no outdated card, and no card missing but for
\* the limit.
Right(a, cards, beyond) ==
  /\ \A i \in DOMAIN cards : cards[i].id = a => cards[i] = CardOf(a)
  /\ Selected(a) /\ (args.search => a \in Contains) /\ a \notin beyond => a \in IdsOf(cards)
RightAbout(a) == Right(a, items, cut)

Quiet ==
  /\ entry = "loaded" /\ fetch.stage = "idle"
  /\ news = <<>> /\ newborn = {} /\ unsent = {}

\* When nothing is under way the list is up to date about every auction but
\* those in "lost": an event about it was sent while the socket was down, or the
\* API stopped or failed before sending it; an answer read before its change arrived
\* after the event; or its CREATED event came after the event of a bid.
QuietListRight == Quiet => \A a \in Auction \ lost : RightAbout(a)

\* Why: events tell what was true, and only while connected; the answer is
\* right about what did not change since it was read; and so is the list about
\* every other auction, unless the event that corrects it is still to come.
NewsTrue ==
  /\ \A i \in DOMAIN news : WasTrue(news[i])
  /\ news # <<>> => socket = "up"
AnswerGood ==
  fetch.stage = "read" =>
    /\ ProperList(fetch.page)
    /\ \A a \in Auction \ fetch.behind : Right(a, fetch.page, fetch.rest)
ToCome(a) ==
  \/ a \in unsent
  \/ a \in newborn /\ Version(a) = 0
  \/ \E i \in DOMAIN news : news[i].id = a /\ news[i] = CardOf(a)
Tracked == entry = "loaded" => \A a \in Auction \ lost : ToCome(a) \/ RightAbout(a)
MInv ==
  /\ TypeOK
  /\ \A a \in newborn \union unsent : Exists(a)
  /\ NewsTrue /\ AnswerGood /\ CardsTrue /\ Tracked
=============================================================================
