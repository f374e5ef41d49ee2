--------------------------- MODULE AuctionEngine ----------------------------
(***************************************************************************)
(* The life of ONE auction in the auction engine: bids, start and          *)
(* finalization, as jobs that API processes take from their in-memory      *)
(* per-auction queues and run one database call at a time.  Auctions share *)
(* no document and no queue, so one auction stands for all of them.        *)
(*                                                                         *)
(* An action is one await of auctionEngine.service.ts: the code from the   *)
(* resumption after the previous database call up to, and including, the   *)
(* effect of the next one.  Code between two awaits is atomic in Node.     *)
(* One element of Server is the deployment the documents describe; two are *)
(* overlapping processes (a restart that overlaps, a second instance),     *)
(* which only the conditional updates of the database keep apart.          *)
(*                                                                         *)
(* A few guards are preceded by a variant with a mistake in it (a check    *)
(* left out, an order swapped), used by no action.  The README says which  *)
(* property each of them breaks when it takes the place of the guard.      *)
(***************************************************************************)
EXTENDS Integers, Sequences, FiniteSets

CONSTANTS
  Server,            \* API processes; each has its own queue for the auction
  User, Seller,      \* accounts, and the one that owns the auction
  NoUser,            \* no account: anonymous caller, no bidder, no winner
  RequestId,         \* the identifiers clients give their bid requests
  NoRequest,         \* the empty request identifier
  BidCall,           \* the bid calls that clients make, in any order and number
  StartingBid, MinimumIncrement, StartAt, EndAt,  \* fields set at creation
  MaxTime,           \* bound: the clock stops here
  QueueBound,        \* bound: calls waiting in one queue
  MaxFaults          \* bound: failed database calls and crashes together

Call == [kind : {"bid", "start", "finalize"}, bidder : User \union {NoUser},
         requestId : RequestId \union {NoRequest}, amount : Int]

ASSUME EngineAssumption ==
  /\ Seller \in User /\ NoUser \notin User /\ NoRequest \notin RequestId
  /\ BidCall \subseteq {c \in Call : c.kind = "bid"}
  /\ StartingBid \in Nat /\ MinimumIncrement \in Nat \ {0}
  /\ StartAt \in Nat /\ EndAt \in Nat /\ StartAt < EndAt
  /\ MaxTime \in Nat /\ QueueBound \in Nat /\ MaxFaults \in Nat

NoTime == -1

VARIABLES
  clock,     \* server time
  queue,     \* queue[s]: calls waiting in process s, oldest first
  job,       \* job[s]: the call process s runs, and where it is in it
  auction,   \* the auction document
  bids,      \* the bid documents
  timeline,  \* the timeline documents
  results,   \* the result documents
  payments,  \* the payment documents
  acked,     \* history: bids reported to their bidder as accepted
  ledger,    \* history: bids applied to the auction document
  faults     \* failures so far

database == <<auction, bids, timeline, results, payments>>
vars == <<clock, queue, job, database, acked, ledger, faults>>

-----------------------------------------------------------------------------
(* Documents and calls. *)

Status == {"UPCOMING", "ACTIVE", "COMPLETED"}

Auction ==
  [status : Status, currentHighestBid : Nat, highestBidder : User \union {NoUser},
   bidCount : Nat, version : Nat, lastSequence : Nat,
   finalizedAt : Nat \union {NoTime}, winner : User \union {NoUser}]

Created(t) ==
  [status |-> IF StartAt <= t THEN "ACTIVE" ELSE "UPCOMING", currentHighestBid |-> 0,
   highestBidder |-> NoUser, bidCount |-> 0, version |-> 0, lastSequence |-> 0,
   finalizedAt |-> NoTime, winner |-> NoUser]

Bid == [bidder : User, requestId : RequestId, amount : Nat \ {0}, sequence : Nat \ {0}]
NoBid == [bidder |-> NoUser, requestId |-> NoRequest, amount |-> 0, sequence |-> 0]

BidOf(c, seq) == [bidder |-> c.bidder, requestId |-> c.requestId,
                  amount |-> c.amount, sequence |-> seq]

EventType == {"AUCTION_CREATED", "AUCTION_STARTED", "BID_ACCEPTED", "AUCTION_ENDED",
              "WINNER_DECLARED", "PAYMENT_PENDING"}
Event(type, seq, actor) == [type |-> type, sequence |-> seq, actor |-> actor]

LifecycleCall(kind) == [kind |-> kind, bidder |-> NoUser,
                        requestId |-> NoRequest, amount |-> 0]

\* What placeBid checks before it queues a bid.
WellFormed(c) == c.bidder # NoUser /\ c.amount > 0 /\ c.requestId # NoRequest

QueuedCall == {c \in Call : c.kind = "bid" => c \in BidCall /\ WellFormed(c)}

-----------------------------------------------------------------------------
(* Jobs.  pc names the database call the job makes next; seen is the auction *)
(* it loaded, at the time it read after loading, bid the bid it works on.    *)

PC == {"idle", "load", "lookup", "apply", "createBid", "bidEvent", "start", "startEvent",
       "finalize", "findHighest", "result", "endedEvent", "winnerEvent", "payment",
       "paymentEvent", "reply"}

Job == [pc : PC, call : QueuedCall, seen : Auction, at : Nat, bid : Bid \union {NoBid}]

Idle == [pc |-> "idle", call |-> LifecycleCall("start"), seen |-> Created(0),
         at |-> 0, bid |-> NoBid]

At(s, pc) == job[s].pc = pc
Goto(s, pc) == job' = [job EXCEPT ![s].pc = pc]
Finish(s) == job' = [job EXCEPT ![s] = Idle]

Init ==
  /\ clock \in 0..StartAt
  /\ queue = [s \in Server |-> <<>>]
  /\ job = [s \in Server |-> Idle]
  /\ auction = Created(clock)
  /\ bids = {} /\ timeline = {Event("AUCTION_CREATED", 0, Seller)}
  /\ results = {} /\ payments = {}
  /\ acked = {} /\ ledger = {} /\ faults = 0

-----------------------------------------------------------------------------
(* Calls enter the queue; a process runs the oldest when it is idle. *)

EnqueueAtFront(q, c) == <<c>> \o q
Enqueue(q, c) == Append(q, c)

Submit(s, c) ==
  /\ Len(queue[s]) < QueueBound
  /\ queue' = [queue EXCEPT ![s] = Enqueue(@, c)]
  /\ UNCHANGED <<clock, job, database, acked, ledger, faults>>

\* Anything else is refused at once, before the queue.
PlaceBid(s, c) == WellFormed(c) /\ Submit(s, c)

\* Timers, restart reconciliation and the bid handler call these at any time.
CallLifecycle(s, kind) == Submit(s, LifecycleCall(kind))

Begin(s) ==
  /\ At(s, "idle") /\ queue[s] # <<>>
  /\ job' = [job EXCEPT ![s].pc = "load", ![s].call = Head(queue[s])]
  /\ queue' = [queue EXCEPT ![s] = Tail(@)]
  /\ UNCHANGED <<clock, database, acked, ledger, faults>>

AfterLoad(kind) == IF kind = "bid" THEN "lookup" ELSE kind

Load(s) ==
  /\ At(s, "load")
  /\ job' = [job EXCEPT ![s].pc = AfterLoad(job[s].call.kind), ![s].seen = auction]
  /\ UNCHANGED <<clock, queue, database, acked, ledger, faults>>

-----------------------------------------------------------------------------
(* Placing a bid: load, lookup, apply, createBid, bidEvent, reply. *)

MinimumNextBid(a) ==
  IF a.bidCount = 0 THEN StartingBid ELSE a.currentHighestBid + MinimumIncrement

Admissible(c, a, t) ==
  /\ a.status = "ACTIVE" /\ t < EndAt
  /\ c.bidder # Seller
  /\ c.amount >= MinimumNextBid(a)

SameRequestNever(c) == {}
SameRequest(c) == {b \in bids : b.bidder = c.bidder /\ b.requestId = c.requestId}

Lookup(s) ==
  LET c == job[s].call
      seen == job[s].seen
  IN /\ At(s, "lookup")
     /\ \/ \E b \in SameRequest(c) :
             job' = [job EXCEPT ![s].pc = "reply", ![s].bid = b]
        \/ /\ SameRequest(c) = {} /\ Admissible(c, seen, clock)
           /\ job' = [job EXCEPT ![s].pc = "apply", ![s].at = clock,
                                 ![s].bid = BidOf(c, seen.lastSequence + 1)]
        \/ /\ SameRequest(c) = {} /\ ~Admissible(c, seen, clock)
           /\ Finish(s)
     /\ UNCHANGED <<clock, queue, database, acked, ledger, faults>>

\* The filter of the conditional update, over the document as it is now.
BidFilterWindowOnly(a, seen, t) == EndAt > t
BidFilterNoVersion(a, seen, t) ==
  a.status = "ACTIVE" /\ a.finalizedAt = NoTime /\ EndAt > t

BidFilter(a, seen, t) ==
  a.status = "ACTIVE" /\ a.finalizedAt = NoTime /\ EndAt > t /\ a.version = seen.version

ApplyBid(s) ==
  LET b == job[s].bid
  IN /\ At(s, "apply")
     /\ IF BidFilter(auction, job[s].seen, job[s].at)
        THEN /\ auction' = [auction EXCEPT !.currentHighestBid = b.amount,
                                           !.highestBidder = b.bidder,
                                           !.bidCount = @ + 1,
                                           !.lastSequence = b.sequence,
                                           !.version = job[s].seen.version + 1]
             /\ ledger' = ledger \union {b}
             /\ Goto(s, "createBid")
        ELSE Finish(s) /\ UNCHANGED <<auction, ledger>>
     /\ UNCHANGED <<clock, queue, bids, timeline, results, payments, acked, faults>>

\* The unique indexes of the bids collection refuse a second document.
BidIndexRefuses(b) ==
  \E o \in bids : \/ o.sequence = b.sequence
                  \/ o.bidder = b.bidder /\ o.requestId = b.requestId

CreateBid(s) ==
  /\ At(s, "createBid")
  /\ IF BidIndexRefuses(job[s].bid)
     THEN Finish(s) /\ UNCHANGED bids
     ELSE Goto(s, "bidEvent") /\ bids' = bids \union {job[s].bid}
  /\ UNCHANGED <<clock, queue, auction, timeline, results, payments, acked, ledger, faults>>

\* One step that records an event in the timeline and goes on.
Record(s, here, type, seq, actor, next) ==
  /\ At(s, here)
  /\ timeline' = timeline \union {Event(type, seq, actor)}
  /\ Goto(s, next)
  /\ UNCHANGED <<clock, queue, auction, bids, results, payments, acked, ledger, faults>>

BidEvent(s) ==
  Record(s, "bidEvent", "BID_ACCEPTED", job[s].bid.sequence, job[s].bid.bidder, "reply")

\* The snapshot is read and the call returns; a bid is acknowledged.
Reply(s) ==
  /\ At(s, "reply")
  /\ acked' = IF job[s].call.kind = "bid" THEN acked \union {job[s].bid} ELSE acked
  /\ Finish(s)
  /\ UNCHANGED <<clock, queue, database, ledger, faults>>

-----------------------------------------------------------------------------
(* Starting: load, start, startEvent, reply. *)

DueToStart(a, t) == a.status = "UPCOMING" /\ StartAt <= t

StartFilter(a, seen, t) ==
  a.status = "UPCOMING" /\ StartAt <= t /\ a.version = seen.version

StartAuction(s) ==
  LET seen == job[s].seen
  IN /\ At(s, "start")
     /\ IF DueToStart(seen, clock) /\ StartFilter(auction, seen, clock)
        THEN /\ auction' = [auction EXCEPT !.status = "ACTIVE",
                                           !.lastSequence = seen.lastSequence + 1,
                                           !.version = seen.version + 1]
             /\ Goto(s, "startEvent")
        ELSE Finish(s) /\ UNCHANGED auction
     /\ UNCHANGED <<clock, queue, bids, timeline, results, payments, acked, ledger, faults>>

StartEvent(s) ==
  Record(s, "startEvent", "AUCTION_STARTED", job[s].seen.lastSequence + 1, NoUser, "reply")

-----------------------------------------------------------------------------
(* Finalizing: load, finalize, [findHighest], result, endedEvent,            *)
(* [winnerEvent, payment, paymentEvent], reply; the bracketed steps only     *)
(* when somebody bid.                                                        *)

DueToFinalizeAnyTime(a, t) == a.status = "ACTIVE" /\ a.finalizedAt = NoTime
DueToFinalizeWithBids(a, t) ==
  a.status = "ACTIVE" /\ a.finalizedAt = NoTime /\ t >= EndAt /\ a.bidCount > 0
DueToFinalize(a, t) == a.status = "ACTIVE" /\ a.finalizedAt = NoTime /\ t >= EndAt

FinalizeFilterNoVersion(a, seen) == a.status = "ACTIVE" /\ a.finalizedAt = NoTime
FinalizeFilter(a, seen) ==
  a.status = "ACTIVE" /\ a.finalizedAt = NoTime /\ a.version = seen.version

ClosingEventsAlwaysThree(seen) == 3
ClosingEvents(seen) == IF seen.highestBidder # NoUser THEN 3 ELSE 1

FinalizeAuction(s) ==
  LET seen == job[s].seen
  IN /\ At(s, "finalize")
     /\ IF DueToFinalize(seen, clock) /\ FinalizeFilter(auction, seen)
        THEN /\ auction' = [auction EXCEPT !.status = "COMPLETED",
                                           !.winner = seen.highestBidder,
                                           !.finalizedAt = clock,
                                           !.lastSequence = seen.lastSequence
                                                              + ClosingEvents(seen),
                                           !.version = seen.version + 1]
             /\ Goto(s, IF seen.highestBidder # NoUser THEN "findHighest" ELSE "result")
        ELSE Finish(s) /\ UNCHANGED auction
     /\ UNCHANGED <<clock, queue, bids, timeline, results, payments, acked, ledger, faults>>

\* First by amount, highest first, then by sequence.
RanksFirstOldest(b) == \A o \in bids : b.sequence <= o.sequence
RanksFirst(b) ==
  \A o \in bids : \/ b.amount > o.amount
                  \/ b.amount = o.amount /\ b.sequence <= o.sequence

FindHighest(s) ==
  /\ At(s, "findHighest")
  /\ \/ /\ bids = {} /\ job' = [job EXCEPT ![s].pc = "result", ![s].bid = NoBid]
     \/ \E b \in bids : /\ RanksFirst(b)
                        /\ job' = [job EXCEPT ![s].pc = "result", ![s].bid = b]
  /\ UNCHANGED <<clock, queue, database, acked, ledger, faults>>

\* bid is the winning bid's document, NoBid for null.
ResultOf(seen, bid) ==
  [winner |-> seen.highestBidder, bid |-> bid,
   amount |-> IF seen.highestBidder # NoUser THEN seen.currentHighestBid ELSE 0]

CreateResultOnce(s) ==
  /\ At(s, "result")
  /\ results' = IF results = {} THEN {ResultOf(job[s].seen, job[s].bid)} ELSE results
  /\ Goto(s, "endedEvent")
  /\ UNCHANGED <<clock, queue, auction, bids, timeline, payments, acked, ledger, faults>>

EndedEvent(s) ==
  Record(s, "endedEvent", "AUCTION_ENDED", job[s].seen.lastSequence + 1, NoUser,
         IF job[s].seen.highestBidder # NoUser THEN "winnerEvent" ELSE "reply")

WinnerEvent(s) ==
  Record(s, "winnerEvent", "WINNER_DECLARED", job[s].seen.lastSequence + 2,
         job[s].seen.highestBidder, "payment")

CreatePendingForWinner(s) ==
  LET seen == job[s].seen
  IN /\ At(s, "payment")
     /\ payments' = IF \E p \in payments : p.winner = seen.highestBidder THEN payments
                    ELSE payments \union {[winner |-> seen.highestBidder,
                                           amount |-> seen.currentHighestBid]}
     /\ Goto(s, "paymentEvent")
     /\ UNCHANGED <<clock, queue, auction, bids, timeline, results, acked, ledger, faults>>

PaymentEvent(s) ==
  Record(s, "paymentEvent", "PAYMENT_PENDING", job[s].seen.lastSequence + 3,
         job[s].seen.highestBidder, "reply")

-----------------------------------------------------------------------------
(* Time and failures. *)

Tick ==
  /\ clock < MaxTime
  /\ clock' = clock + 1
  /\ UNCHANGED <<queue, job, database, acked, ledger, faults>>

\* A database call throws, before or after its effect: the call is rejected
\* and the queue goes on with the next one.
JobFails(s) ==
  /\ ~At(s, "idle") /\ faults < MaxFaults
  /\ Finish(s) /\ faults' = faults + 1
  /\ UNCHANGED <<clock, queue, database, acked, ledger>>

\* The process dies and starts again with an empty queue.
Crash(s) ==
  /\ faults < MaxFaults /\ faults' = faults + 1
  /\ Finish(s) /\ queue' = [queue EXCEPT ![s] = <<>>]
  /\ UNCHANGED <<clock, database, acked, ledger>>

-----------------------------------------------------------------------------
BidStep(s) == Lookup(s) \/ ApplyBid(s) \/ CreateBid(s) \/ BidEvent(s)
StartStep(s) == StartAuction(s) \/ StartEvent(s)
FinalizeStep(s) ==
  \/ FinalizeAuction(s) \/ FindHighest(s) \/ CreateResultOnce(s) \/ EndedEvent(s)
  \/ WinnerEvent(s) \/ CreatePendingForWinner(s) \/ PaymentEvent(s)

\* What the event loop of process s does without waiting for anybody's call.
Step(s) == Begin(s) \/ Load(s) \/ BidStep(s) \/ StartStep(s) \/ FinalizeStep(s) \/ Reply(s)

Next ==
  \/ Tick
  \/ \E s \in Server :
       \/ Step(s) \/ JobFails(s) \/ Crash(s)
       \/ \E c \in BidCall : PlaceBid(s, c)
       \/ \E kind \in {"start", "finalize"} : CallLifecycle(s, kind)

Spec == Init /\ [][Next]_vars

\* Time passes and the event loop runs; nobody is obliged to call.
FairSpec == Spec /\ WF_vars(Tick) /\ \A s \in Server : WF_vars(Step(s))

-----------------------------------------------------------------------------
(* Properties. *)

TypeOK ==
  /\ clock \in Nat /\ faults \in Nat
  /\ queue \in [Server -> Seq(QueuedCall)]
  /\ job \in [Server -> Job]
  /\ auction \in Auction
  /\ bids \subseteq Bid /\ acked \subseteq Bid /\ ledger \subseteq Bid
  /\ timeline \subseteq [type : EventType, sequence : Nat, actor : User \union {NoUser}]
  /\ results \subseteq [winner : User \union {NoUser}, bid : Bid \union {NoBid}, amount : Nat]
  /\ payments \subseteq [winner : User, amount : Nat \ {0}]

AtRest == \A s \in Server : At(s, "idle")

\* One process and no failure so far: the deployment the documents describe.
Undisturbed == (\E s \in Server : Server = {s}) /\ faults = 0

\* Whatever processes overlap and fail, the bids applied to the auction rise
\* with their sequence numbers, each by at least the increment, and no
\* sequence number is given twice (placeBidInQueue, applyAcceptedBid).
LedgerRises ==
  \A a, b \in ledger :
    /\ a.sequence = b.sequence => a = b
    /\ a.sequence < b.sequence => a.amount + MinimumIncrement <= b.amount

\* The document's price, leader and count are those of the bids applied to
\* it: no update overwrites a bid it did not know of (applyAcceptedBid).
LeaderIsLastBid ==
  /\ auction.bidCount = Cardinality(ledger)
  /\ ledger = {} => auction.highestBidder = NoUser
  /\ ledger # {} =>
       \E b \in ledger : /\ \A o \in ledger : o.sequence <= b.sequence
                         /\ b.bidder = auction.highestBidder
                         /\ b.amount = auction.currentHighestBid

\* A bidder who was told "accepted" has a bid document, and that bid counted
\* when the auction closed: nobody wins with less, nor with the same amount
\* (placeBidInQueue returns after createAcceptedBid; finalizeAuction).
AcknowledgedBidsCount ==
  /\ acked \subseteq bids /\ bids \subseteq ledger
  /\ auction.status = "COMPLETED" =>
       \A b \in acked : \/ b.amount < auction.currentHighestBid
                        \/ /\ b.amount = auction.currentHighestBid
                           /\ b.bidder = auction.winner

\* The result and the payment are those of the auction as it closed, though
\* they are written later and from a copy loaded earlier (finalizeAuction).
ClosingRecordsMatch ==
  /\ \A r \in results :
       /\ auction.status = "COMPLETED" /\ r.winner = auction.winner
       /\ auction.winner # NoUser => r.amount = auction.currentHighestBid
  /\ \A p \in payments :
       /\ auction.status = "COMPLETED" /\ auction.winner # NoUser
       /\ p = [winner |-> auction.winner, amount |-> auction.currentHighestBid]

\* A completed auction never changes again: a bid or a second finalization
\* that was under way when it closed has no effect (the update filters).
FrozenOnceCompleted ==
  [][auction.status = "COMPLETED" => auction' = auction]_vars

\* No two timeline events the engine writes carry the same sequence number,
\* though no index of the timeline collection enforces it and each is written
\* one or more awaits after its number was taken (createEvent).
TimelineSequencesUnique ==
  \A e, f \in timeline : e.sequence = f.sequence => e = f

\* The inductive invariant behind these properties.  Its heart is SeenOK: the
\* version of a loaded copy never exceeds the document's, and a copy of the
\* document's version is the document; hence a conditional update that finds
\* the expected version writes over exactly what was loaded and checked.
BidPC == {"lookup", "apply", "createBid", "bidEvent"}
ClosingPC == {"findHighest", "result", "endedEvent", "winnerEvent", "payment", "paymentEvent"}

SeenOK(s) ==
  /\ job[s].seen.version <= auction.version
  /\ job[s].seen.version = auction.version => job[s].seen = auction

BidJobOK(s) ==
  LET j == job[s]
  IN /\ j.pc \in BidPC => j.call.kind = "bid"
     /\ j.pc \in {"apply", "createBid", "bidEvent"} =>
          j.bid = BidOf(j.call, j.seen.lastSequence + 1)
     /\ j.pc = "apply" => Admissible(j.call, j.seen, j.at)
     /\ j.pc = "createBid" => j.bid \in ledger
     /\ j.pc = "bidEvent" => j.bid \in bids
     /\ j.pc = "reply" /\ j.call.kind = "bid" => j.bid \in bids

ClosingJobOK(s) ==
  LET j == job[s]
  IN /\ j.pc \in {"start", "startEvent", "finalize"} \union ClosingPC => j.call.kind # "bid"
     /\ j.pc \in ClosingPC => /\ auction.status = "COMPLETED"
                              /\ j.seen.highestBidder = auction.winner
                              /\ j.seen.currentHighestBid = auction.currentHighestBid
     /\ j.pc \in ClosingPC \ {"result", "endedEvent"} => j.seen.highestBidder # NoUser

JobOK(s) ==
  /\ job[s].pc \notin {"idle", "load"} => SeenOK(s)
  /\ BidJobOK(s)
  /\ ClosingJobOK(s)

JobsOK == \A s \in Server : JobOK(s)

DocumentOK ==
  /\ IsFiniteSet(ledger)
  /\ \A b \in ledger : /\ b.sequence <= auction.lastSequence
                        /\ b.amount <= auction.currentHighestBid
  /\ auction.bidCount > 0 => auction.currentHighestBid > 0 /\ auction.highestBidder # NoUser
  /\ IF auction.status = "COMPLETED" THEN auction.winner = auction.highestBidder
     ELSE auction.winner = NoUser /\ auction.finalizedAt = NoTime

BidsOK == acked \subseteq bids /\ bids \subseteq ledger

IInv ==
  /\ TypeOK /\ JobsOK /\ DocumentOK
  /\ LedgerRises /\ LeaderIsLastBid /\ ClosingRecordsMatch
  /\ BidsOK

\* The events that the job of s is still to record.  Their sequence numbers
\* were taken when it updated the auction document.
Owed(s) ==
  LET j == job[s]
      seq == j.seen.lastSequence
      winner == j.seen.highestBidder
      payment == {Event("PAYMENT_PENDING", seq + 3, winner)}
      winning == {Event("WINNER_DECLARED", seq + 2, winner)} \union payment
  IN CASE j.pc \in {"createBid", "bidEvent"} ->
            {Event("BID_ACCEPTED", j.bid.sequence, j.bid.bidder)}
       [] j.pc = "startEvent" -> {Event("AUCTION_STARTED", seq + 1, NoUser)}
       [] j.pc \in {"findHighest", "result", "endedEvent"} ->
            {Event("AUCTION_ENDED", seq + 1, NoUser)}
              \union (IF winner # NoUser THEN winning ELSE {})
       [] j.pc = "winnerEvent" -> winning
       [] j.pc \in {"payment", "paymentEvent"} -> payment
       [] OTHER -> {}

Promised == timeline \union UNION {Owed(s) : s \in Server}

\* No number is given twice, be its event recorded or still owed, and none is
\* above the document's, which the next update counts on from.
Numbered ==
  /\ \A e \in Promised : e.sequence \in 0..auction.lastSequence
  /\ \A e, f \in Promised : e.sequence = f.sequence => e = f

\* The auction document alone, whatever the processes do, is an English
\* auction.
English == INSTANCE EnglishAuction
  WITH Amount <- {c.amount : c \in BidCall},
       status <- auction.status, price <- auction.currentHighestBid,
       leader <- auction.highestBidder, count <- auction.bidCount,
       winner <- auction.winner
ImplementsEnglishAuction == English!Spec

\* A request identifier is accepted once, however often it is sent and even
\* with another amount (findAcceptedByRequestId inside the queue).
RequestAcceptedOnce ==
  Undisturbed =>
    \A a, b \in ledger : a.bidder = b.bidder /\ a.requestId = b.requestId => a = b

\* When the process is at rest every accepted bid has its document, the
\* timeline has no gap up to lastSequence, and a completed auction has its
\* result and, if somebody won, its payment.
RecordsComplete ==
  Undisturbed /\ AtRest =>
    /\ bids = ledger
    /\ {e.sequence : e \in timeline} = 0..auction.lastSequence
    /\ auction.status = "COMPLETED" =>
         results # {} /\ (auction.winner # NoUser => payments # {})

\* The bid a result points to is the winner's, at the winning amount.
ResultNamesWinningBid ==
  Undisturbed =>
    \A r \in results :
      r.winner # NoUser => r.bid.bidder = r.winner /\ r.bid.amount = r.amount

\* Why these three hold of an undisturbed process.  What it loaded stays what
\* the document is, so every bid it applies is new and every update succeeds;
SoleBid(s) ==
  LET j == job[s]
  IN /\ j.pc \in {"lookup", "apply", "start", "finalize"} => j.seen = auction
     /\ j.pc = "apply" => SameRequest(j.call) = {}
     /\ j.pc = "createBid" => j.bid \notin bids
     /\ ledger = bids \union {b \in {j.bid} : j.pc = "createBid"}

\* and of each update the records are written or owed by the job that made it.
SoleNumbers(s) ==
  {e.sequence : e \in timeline \union Owed(s)} = 0..auction.lastSequence

SoleClosing(s) ==
  LET j == job[s]
      closing == auction.status = "COMPLETED"
      unpaid == {"findHighest", "result", "endedEvent", "winnerEvent", "payment"}
  IN /\ j.pc = "result" /\ auction.winner # NoUser =>
          j.bid.bidder = auction.winner /\ j.bid.amount = auction.currentHighestBid
     /\ closing /\ j.pc \notin {"findHighest", "result"} => results # {}
     /\ closing /\ j.pc \notin unpaid /\ auction.winner # NoUser => payments # {}

SoleOK(s) == SoleBid(s) /\ SoleNumbers(s) /\ SoleClosing(s)

Sole ==
  /\ RequestAcceptedOnce /\ ResultNamesWinningBid
  /\ Undisturbed => \A s \in Server : SoleOK(s)

\* The queue starves nobody: a bid that waits is eventually run, even when
\* others keep bidding (promise chain of AuctionQueueService.run).
EveryWaitingBidRuns ==
  \A s \in Server, c \in BidCall :
    (\E i \in 1..Len(queue[s]) : queue[s][i] = c) ~> (~At(s, "idle") /\ job[s].call = c)

Settled ==
  /\ auction.status = "COMPLETED" /\ results # {}
  /\ auction.winner # NoUser => payments # {}

\* A finalization that runs after the end closes the auction and goes on to
\* write result and payment.
LateFinalizationSettles ==
  \A s \in Server :
    (At(s, "load") /\ job[s].call.kind = "finalize" /\ auction.status = "ACTIVE"
       /\ clock >= EndAt) ~> Settled
=============================================================================
