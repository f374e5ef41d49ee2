# Cubid, specified

Cubid is a realtime auction site: an Express and Socket.IO API over MongoDB
(`api/`) and a React client (`web/`). This directory holds TLA+ specifications
of its core, the TLC runs that check them on small instances, and proofs,
checked by TLAPS, that the most important properties hold for every instance.

    tlc -workers 2 -config engine_two.cfg MCAuctionEngine.tla
    tlapm AuctionEngineProofs.tla

## 1. Inventory

| Component | State | Operations | Hard part |
|---|---|---|---|
| Auction engine (`auctionEngine.service.ts` and the repositories of auctions, bids, results, timeline, payments) | auction document with `version` and `lastSequence`; bid, result, timeline and payment documents | `placeBid`, `startAuction`, `finalizeAuction` | a dozen awaits per call, each of which may fail; other processes; retried requests |
| Auction queue (`auctionQueue.service.ts`) | map from auction to the tail of a promise chain | `run` | calls between the end of a task and its cleanup; rejected tasks |
| Timers and bootstrap (`auctionTimer.service.ts`, `server.ts`) | timeouts in memory | `restoreTimers`, `scheduleAuction`, timer tasks | restarts, capped delays, failed tasks, late bids that finalize first |
| Auction service (`auction.service.ts`), creation form | - | `createAuction`, queries | a stop between insert and timer; limits of the form and of the API |
| Snapshots (`auctionSnapshot.service.ts`) | - | `buildSnapshot`, `getMinimumNextBidMinor` | several reads that are not one snapshot of the database |
| Payments (`payment.service.ts`, `payment.repository.ts`, gateways) | payment status, gateway order and payment ids | order, verify, webhook, mock checkout | webhooks late, twice or out of order; check before and update after an await |
| Realtime handler and presence (`infrastructure/realtime`) | sockets and viewers per room | join, resync, leave, bid, chat, disconnect | joins and disconnects that overlap; old statistics after new ones |
| Client room (`useAuctionRoom.ts`, `socket.ts`) | snapshot shown, connection | apply snapshot, resync, reconnect | snapshots in any order; acknowledgements that time out |
| Client forms (`useBidIntent.ts`, `useAuctionChat.ts`, `AuctionRoomPage.tsx`) | pending bid and message, chat list | press, answer, timeout | a press after a timeout; permissions that came with somebody else's snapshot |
| Client cache (`auction.api.ts`, `auctionDiscoveryTransforms.ts`) | list of auctions | fetch, marketplace updates, invalidation | answers and events without a version, each late or lost |
| Sessions (`auth.service.ts`, `baseQueryWithAuth.ts`) | session documents; the client's access token and refresh mutex | register, login, refresh, logout | logout during refresh; many requests that see 401 at once |
| Chat (`modules/chat`) | messages in the database | `sendMessage` | the answer and the broadcast of one message |
| Users, REST layer, configuration, other pages | - | - | single-document operations, stateless translation, presentation |

How they interact: HTTP and socket handlers call the engine; the engine runs
every change of an auction inside that auction's queue and writes through the
repositories; timers, boot reconciliation and the bid handler (after
`AUCTION_ENDED`) call `startAuction` and `finalizeAuction`; what a call returns is
broadcast to the room and to the marketplace; finalization creates the payment
that the payment service later moves to `SUCCESSFUL` or `FAILED`.

What makes the components correct:

- engine: an English auction whatever happens around it (prices rise by the
  increment, one leader, closes once, winner is the leader); acknowledged bids
  are never lost; the records written at the close agree with it; a request
  identifier is accepted once;
- queue: one task at a time and in order per auction, nobody starves, no leak;
- timers: active auctions end, nothing announced twice;
- payments: a success that names the provider was paid there and is not undone by later
  calls, and what the gateway reports arrives at the payment it belongs to;
- room: what a client shows never moves back, an open page is in its room and, unless it
  heard of another auction, shows its own as last broadcast;
- forms: no suggested bid is raised unseen, a message reported as sent is shown;
- list: right when nothing is under way, but for the events that were lost;
- sessions: no token from a revoked session, no request waiting for ever, none
  refused or run twice because several were refused at once.

Everything in this code that is hard to test is listed in `PROJECT.json`
(`hazards`) at the line where it bites, with the property that covers it.

## 2. Modules and plan

    EnglishAuction        abstract: what one auction promises
      AuctionEngine       the engine; implements EnglishAuction
        MCAuctionEngine   instances           AuctionEngineProofs  theorems
    SerialQueue           abstract: a serial queue per auction
      AuctionQueue        promise chains; implements SerialQueue
        MCAuctionQueue    instances           AuctionQueueProofs   theorems
    AuctionTimer          timers, boots, late finalization
        MCAuctionTimer    instances           AuctionTimerProofs   theorems
    Payments              checkout, verification, webhooks of one payment
        MCPayments        instances           PaymentsProofs       theorems
    AuctionRoom           rooms, presence and the room page over Socket.IO
        MCAuctionRoom     instances           AuctionRoomProofs    theorems
    RoomForms             the bid and chat forms of the room page
        MCRoomForms       instances           RoomFormsProofs      theorems
    Marketplace           the auction list of a tab, the creation form
        MCMarketplace     instances           MarketplaceProofs    theorems
    AuthSession           sessions, refresh and its mutex, several tabs
        MCAuthSession     instances           AuthSessionProofs    theorems

`AuctionEngine` uses the queue in the abstract form (a sequence per process from
which one call at a time is taken); `AuctionQueue` shows that the promise chains
are that. `AuctionTimer` uses the engine by the effect of its two lifecycle
calls, one conditional update made by one call at a time; `AuctionEngine` and
`AuctionQueue` show that they are that. `Payments` starts where the engine ends:
from the pending payment that `AuctionEngine` creates at most once per auction.
`AuctionRoom` uses the engine as a source of versions: a change raises the version of
the document by one, which is the theorem `OneVersionPerUpdate` of the engine, and comes
one at a time per auction, which is `QueueImplementsSerialOrder` of the queue.

`RoomForms` leaves to `AuctionRoom` what happens when pages open and close, to
`AuctionQueue` the order of the jobs and to `AuctionEngine` what lies between the
writes of a job; it adds the amounts and permissions that `AuctionRoom` leaves out
of snapshots. `Marketplace` relies on the same two for one change at a time per
auction and a version more with each. `AuthSession` stands alone: nothing the
other modules describe depends on who is signed in, except the user of a socket,
which `AuctionEngine` and `RoomForms` take as given.

Every module has inductive invariants (`IInv` and `Sole`, `QInv`, `TInv`, `PInv`,
`RInv`, `AInv`, `MInv`, `FInv` and `ChatInv`). TLC has checked each on the instances
below; they are proved, and the runs check what follows from them. Every safety and
action property of the passing runs is a theorem; what could still be added to the
models is statistics and payment status in snapshots. Liveness stays with TLC.

## 3. AuctionEngine

One auction; auctions share no document and no queue. A process (an element of
`Server`) has a queue and at most one job. An action is the code from the
resumption after one database call to the effect of the next, which is the unit
of atomicity in Node:

| Action | Code (`auctionEngine.service.ts` unless named) |
|---|---|
| `PlaceBid`, `CallLifecycle` | `placeBid` 70-84; the timer's and handler's calls |
| `Begin`, `Load` | queue takes the next call; `findById` |
| `Lookup` | `findAcceptedByRequestId` 231-235 and the checks 237-273 |
| `ApplyBid` | conditional update 275-289 (`auction.repository.ts` 167-204) |
| `CreateBid`, `BidEvent`, `Reply` | 291-297, 299-307, 309-314 |
| `StartAuction`, `StartEvent` | 86-111, 113-118 |
| `FinalizeAuction` | checks and conditional update 127-162 |
| `FindHighest`, `CreateResultOnce`, `EndedEvent`, `WinnerEvent`, `CreatePendingForWinner`, `PaymentEvent` | 164-205, in this order |
| `JobFails`, `Crash` | a database call throws; the process dies |

A job keeps what the code keeps in local variables: the call, the auction it
loaded (`seen`), the time it read (`at`) and the bid. A database call that fails
after its effect is its action followed by `JobFails`. `acked` and `ledger` are
history: bids acknowledged to their bidder, bids applied to the document.
Titles, currency, populated names and metadata of events are left out; amounts
are small integers; the set of timeline documents stands for the collection,
since no property depends on how often an identical document is written.

Two elements of `Server` are two processes with separate queues: a deployment
whose restart overlaps, or a second instance. The documents promise only one,
and the properties that need one say so (`Undisturbed`).

| Run | Instance | Shows |
|---|---|---|
| `engine_one` | 1 process, 8 calls of 3 users, 2 identifiers, queue of 2, fair, no faults | `RequestAcceptedOnce`, `RecordsComplete`, `ResultNamesWinningBid`, `EveryWaitingBidRuns`, `LateFinalizationSettles` |
| `engine_two` | 2 processes, 2 competing bids any number of times, 1 fault | `LedgerRises`, `LeaderIsLastBid`, `AcknowledgedBidsCount`, `ClosingRecordsMatch`, `TimelineSequencesUnique`, `FrozenOnceCompleted`, `ImplementsEnglishAuction` |

Bounds. Calls are unlimited in number but drawn from a small set; `StartAt = 1`,
`EndAt = 2`, `MaxTime = 2` give a time before, during and after the auction, and
`Init` allows creation at either side of the start. The calls of `engine_one`
give every answer: first bid, raise too small, raise, same identifier with another
amount, owner, anonymous, no identifier, no amount; its properties are about one
process that nothing disturbs, so the faults are in `engine_two`. There two
bids suffice for a race between any two of bid, start and finalization; the
proofs remove the bound.

Fairness. `FairSpec` asks that time passes and that the event loop of each
process takes every step it can; nobody is obliged to call.

What no property says because it is not so. `placeBidInQueue` updates the auction before it
inserts the bid: if the insert fails, every later snapshot shows a leader whose bid has no
document, against "Accepted bids are persisted before they are broadcast" (`README.md`).
That every bid has its document is part of `RecordsComplete`, for an undisturbed process.
The same order has a price in `finalizeAuction`, which sets `COMPLETED` first and stops
when it finds `COMPLETED`: after a failure in between, result and payment are never
written, however often it is called. "Finalization is idempotent" (`README.md`) is true
of it in this sense too; `RecordsComplete` and `LateFinalizationSettles` speak of
undisturbed processes. No acknowledged bid is lost by either: that is
`AcknowledgedBidsCount`, which is proved.

## 4. AuctionQueue

A task is one call of `run`, and its promise is its identity. `Run` reads the tail
and replaces it (7, 18), `StartTask` is `.catch().then(task)` (10-11), `Settle` the
end of the task either way, `Cleanup` the `finally` callback (12-16). `Settle` and
`Cleanup` are separate because another call of `run` may fall between them. The
run `queue` takes three calls for one auction and one for another, each failing or
not, under the fairness of the event loop (ready callbacks run, tasks settle),
and checks `FirstComeFirstServed`, `EntriesAreLive` and that it implements
`SerialQueue`, liveness included; mutual exclusion is part of that, and proved. Three
calls are what it takes for one to arrive behind a finished one while another waits.
The mapping uses history that the code does not have: `ticket` numbers the calls of one
auction, `issued` and `begun` count those made and those started. Calls run in the order
of their tickets, so the queue of an auction is the calls numbered from `begun + 1` to
`issued`, and the active one is the call numbered `begun` while it runs.
Deadlock is not checked: the calls are finitely many.

## 5. AuctionTimer

One auction in one process that stops and boots again. Callers of the engine are
`createAuction`, boot reconciliation, the two timer tasks and the bid handler; each
asks, is answered by `Engine` (the conditional update) and resumes with `Return`
(broadcast; set the end timer). A caller resumes before the next call of the
engine has its effect, because the continuation runs before the next database
answer arrives. `Fail` is a rejected call, before or after the update: logged by a
timer task, fatal during boot (`process.exit(1)`). `Stop` is a crash or a signal.

`timer` checks with two stops and two faults, starts now, soon and further away
than a timeout can be long (`MaxDelay`), that starts and ends are announced once
and in order, that an active auction has its end timer armed, that active auctions
complete and that armed auctions start. A model
without lead 3 would hide the cut delay: there the timer fires early, finds
nothing to do, and is not set again, so `ArmedAuctionStarts` speaks of timers
that were not cut. Auctions one of whose calls failed are left out of
`ActiveAuctionArmed` and `ActiveAuctionCompletes`: a timer task that failed is only
logged. Two stops allow one during creation
and one later. Fairness: time passes, due timeouts fire, calls proceed, and
somebody boots a stopped process (the code cannot do that itself); nobody needs to
bid late. Deadlock is not checked, since a completed auction leaves nothing to do.

`timer_restart` is a finding: `findSchedulableAuctions` returns `UPCOMING` auctions
only when they are due, so after a restart an auction that starts later has no
start timer, against "`AuctionTimerService` restores start/end timers on API boot".

## 6. Payments

One payment document, the calls of `PaymentService` on it, and outside of it the
provider and the winner's page. A call loads the document, waits for the provider,
writes, and records the timeline event; each await is a step, and any call may fail
in between (`Fail`).

| Action | Code (`payment.service.ts` unless named) |
|---|---|
| `CreateCheckoutOrder`, `CreateOrder`, `OrderRefused`, `SetGatewayOrder` | `createCheckoutOrder` 114-125; `createOrder` of the adapters; `payment.repository.ts` 93-113 |
| `VerifyCheckout`, `VerifyPayment` | `verifyCheckout` 127-137; `verifyPayment` of the adapters |
| `HandleWebhook` | `handleWebhook` 151-166; `parseWebhook` of the adapters |
| `CompleteMockCheckout` | 180-208, under every gateway (`payment.route.ts` 37-43), with the steps above asked of the mock (`Mock`) |
| `UpdateStatus`, `Record` | `markPaymentStatus` 238-268; `payment.repository.ts` 115-136 |
| `Pay`, `Decline`, `Capture`, `PayLater`, `Settle`, `Expire` | external: what providers do and report |

`setup`, chosen once, says which gateway is configured, whether calls wait for each
other, and whether Stripe offers payment methods that settle later. Every sent webhook
may reach the service any number of times and in any order; one that got no success
answer is sent again.

| Run | Instance | Shows |
|---|---|---|
| `payments` | three gateways, two orders and the demo order, two calls, one failure; calls that overlap have one order of the provider, and no delayed methods | `SuccessWasPaid`, and for calls one at a time `SuccessIsFinal`, `SuccessNamesItsOrder`, `PaidOnTimelineOnce`, `PaidOrderSettles` |
| `payments_race` | Razorpay, overlapping calls | finding: `NeverDowngraded` fails |
| `payments_demo` | Razorpay, calls one at a time | finding: `SuccessMeansMoney` fails |

`SuccessWasPaid`: a success whose payment id is one of the provider, and not the demo's,
is for an order that was paid there, however calls overlap. The others need calls that
do not overlap, because every write is unconditional: then a success is final, is for the
order that is stored, is announced at most once, and a paid order settles its payment
whatever fails. `PaidOrderSettles` speaks of the order the payment names now: after a
second checkout, a demo checkout included, the first order's webhook is answered with 404
and its verification with `PAYMENT_ORDER_MISMATCH`, so a winner who pays an older
checkout in another tab is not recorded as having paid. `SuccessWasPaid` leaves out
delayed methods: `checkout.session.completed` counts as paid, and a later
`async_payment_failed` is ignored. Fairness: calls go on, the provider captures what was
authorized and repeats unanswered webhooks (strong fairness, since a call may be under way
each time). A settled payment leaves nothing to do, so deadlock is not checked. Two orders
are enough for one to replace the other, two calls for one to write over the other.

Two findings. `payments_demo`: the route of the demo checkout is there under every
gateway, and `completeMockCheckout` asks the mock, which verifies the outcome it is told.
So with Razorpay or Stripe configured too a payment becomes `SUCCESSFUL` by the caller's
word, against "Never trust ... payment state" (`docs/SECURITY.md`) and "keeps mock checkout
for local demos" (`docs/ARCHITECTURE.md`). This is why `SuccessWasPaid` asks for a payment
id of the provider.

`payments_race`: Razorpay's `payment.authorized`, which counts as
`FAILED`, loads the payment before the page's verification marks it and writes over
`SUCCESSFUL`, against the test "never downgrades paid records", which tries one
webhook after the other. A checkout order that was loaded before does the same.

## 7. AuctionRoom

Browser tabs, each with one page and one connection at a time, and one API process. A
connection is a socket `<<tab, n>>`; its packets keep their order in each direction
(`up`, `down`), the two ends learn separately that it is gone (`live`, `online`), and
what is sent without a connection is kept (`buffer`).

| Action | Code |
|---|---|
| `OpenPage`, `ClosePage` | the effect of `useAuctionRoom.ts` 50-67, 127-140 |
| `Connect`, `Drop`, `ChangeToken` | connect with the join of the open page (60-67, 114), `handleDisconnect` 108-112; `socket.ts` 44-64, 108-120 with `SocketLifecycle.tsx` |
| `Hear`, `resync`, `AckTimeout` | `handleSnapshot`, `handleRoomError` and the answers 69-106; `resync` 143-163; `socket.ts` 78-104 |
| `Receive` of a join, resync or leave | `handleJoin`, `handleResync`, `handleLeave` (`auctionRealtime.handler.ts` 79-142) up to their first database call, with `join` and `leave` of `auctionPresence.service.ts` |
| `handleDisconnect` | 224-237 with `leaveAll` |
| `Change` | a bid, start or end: the engine's update, and the snapshot it answers with |
| `broadcastPaymentState` | `payment.service.ts` 270-273 |
| `LoadAuction`, `Respond`, `handleError` | `getSnapshot` reads; what follows it; `handleError` 286-295 |

The adapter of Socket.IO is in memory, so `await socket.join` and `presence.join` are one
step: between them only other handlers' continuations of the same kind run, in order.
A snapshot is its auction and version (`lastSequence` never moves without the version).
Statistics, which the page overwrites without a check, permissions and payment status
are left out. The acknowledgement repeats what the event just before it told the same
page, so the two are one packet; if it is late, `AckTimeout` shows the error and the
snapshot still arrives. The router leads from room to room only over another page, so
a page is closed before the next is opened.

| Run | Instance | Shows |
|---|---|---|
| `room` | 1 tab, 2 auctions, 2 connections, 2 requests, 1 change, 1 fault | `PresenceIsRoom`, `OpenPageIsInRoom`, `JoinedPageIsUpToDate`, `VersionNeverBack` |

Two connections and two requests give a close and reopening on one connection and a
reconnect with the page open; one change is enough to tell an old snapshot from a new
one. Nothing a tab does touches another tab's packets, and the proofs remove all the
bounds. Deadlock is not checked: the bounds end every behaviour.

`Quiet(t)` says that nothing more is under way to the page; the two state properties
speak of that moment, so they say where every order of events leads.
`JoinedPageIsUpToDate` has two parts: a page that never heard a snapshot of another auction
(`strayed`, a history variable) shows its own, and a page that shows its own shows the
last version broadcast or a newer one. It asks that no database call failed: after the join
of a reconnect failed, an answer to a resync asked before it makes the page say "joined"
although it shows an older version, until the next broadcast. `VersionNeverBack`
speaks of every step.

What `strayed` leaves out does happen. A page takes every snapshot its socket hears, and
versions are compared whatever auctions they are of. The answer to the join of a room that
was left, if it comes after the page of the next room is open, shows one auction on the
page of another, and, if its version is higher, the page refuses its own auction's
snapshots from then on, while it says it is joined; against "Realtime clients recover by
joining the auction room and receiving a full snapshot"
(`docs/ARCHITECTURE-DECISIONS.md`, ADR-007). The property shows that without failures
there is no other way for a page to be left on the wrong auction.

## 8. RoomForms

The two forms of the room page from the button to the answer, on pages that stay open.

| Action | Code |
|---|---|
| `PressBid`, `PressSend` | `handleBidSubmit` of `AuctionRoomPage.tsx` 97-106, with its form 189-208; `handleSubmit` of `AuctionChatPanel.tsx` |
| `Connect`, `Drop`, `BidTimesOut`, `SendTimesOut` | `socket.ts` 44-105 with the two hooks |
| `HearSnapshot`, `HearBidAnswer`, `HearMessage`, `HearChatAnswer` | `useAuctionRoom.ts` 83-87, `useBidIntent.ts` 81-91, `useAuctionChat.ts` 16-72 |
| `Receive`, `AnswerJoin` | `auctionRealtime.handler.ts`: a handler up to its first database call; the answer to a join |
| `AcceptBid`, `RefuseBid`, `RefuseLateBid`, `BidFails` | `handleBid` 144-194 with the checks 246-273 of the engine |
| `startAuction`, `finalizeAuction`, `EndPasses` | the timer's calls and their broadcasts |
| `handleChatSend`, `RefuseMessage`, `ChatFails` | 196-222 with `chat.service.ts` |

A press is numbered within its tab; the number stands for the request identifier of a
bid and for the text of a message. Jobs of the queue run in any order, and what a job
writes and what is sent about it are one step. The first packet of a page to a room is
its join; it is kept like any other and sent again by the `connect` event, and the
model has it once, last. Closing pages, resync, failed joins, token changes and failures
of lifecycle jobs are in `AuctionRoom` and `AuctionEngine`. The page turns the minimum
into major units with two digits and the form turns it back (`toAmountMinor`), which
returns the same amount, so amounts are whole minor units. Stored messages are read by
no code, so storing one is a call that may fail.

`forms` checks two tabs: two bidders, one bidder twice, a bidder and the seller, a bidder
and a guest; two connections, two presses, one failed call, chat lists of one message,
a starting bid of 1 with increment 2, and 4 as what may be typed, which is neither
minimum. That is enough for one bid to pass the other's suggestion, for a bid after a
timeout of the first, for a reconnect between press and answer, and for a message to
push out another. `SuggestionsAreInformed` is what saves a bidder who presses again:
each press is a new request, but the suggestion is dated. An amount that was typed has
no such protection.

What no property says because it is not so: that forms are open to those who may use
them. Snapshots carry permissions: `handleBid` broadcasts the snapshot of the bidder, and
timers that of nobody, and the page takes the permissions of whatever it hears. After
somebody's bid the forms of a guest are open, against "Read-only public room visibility
for guests" (`README.md`) and the page's own "Guests can watch this room live"; the server
refuses what they send (`Accepts`, `RefuseMessage`). After a start by the timer,
conversely, every page is told `canBid: false` until it hears another snapshot. Nor is it
so that

- a suggestion can always be sent: with a starting bid of 0 the form refuses it;
- a confirmed message is always shown: one kept for the next connection is sent before
  the join and may be told before it, which `ChatIsTrue` says;
- a message is told once: the user who tries again after a timeout repeats it.

`lastRejection`, which keeps the last refusal on the page after a bid was accepted, is
left out. Deadlock is not checked: connections and presses are bounded.

## 9. Marketplace

One entry of the list cache in one tab, the events it hears, and the creation form.

| Action | Code |
|---|---|
| `OpenPage`, `LeavePage`, `Evict`, `Arrive`, `FetchFails`, `Request` | `listAuctions` of `auction.api.ts` 89-120, `auction.service.ts` and `auction.repository.ts` behind it; when RTK Query fetches, refetches and evicts is external |
| `Hear` | `handleMarketplaceUpdate` with `auctionDiscoveryTransforms.ts` |
| `CreationAnswered`, `PaymentAnswered` | tags invalidated by `createAuction`, and by `verifyCheckout` and `mockCheckout` of `payment.api.ts` |
| `BidAccepted`, `AuctionStarts`, `AuctionEnds`, `Announce`, `AnnouncePayment`, `JobFails` | what the engine, the timers and the payment service do to a card, and `broadcastMarketplaceUpdate` |
| `CreateAuction`, `OthersCreate`, `RefuseCreation`, `LoseCreation`, `AnnounceBirth`, `BirthFails` | `handleSubmit` of `CreateAuctionPage.tsx`, the validator, `createAuction` |
| `Connect`, `Disconnect`, `Crash` | socket and process |

An auction is the sequence of its statuses, one per version, so a card is true if it is
in that sequence. A change is announced before the next one of that auction begins
(`unsent`), since the queue's job sends before it is over; only `AUCTION_CREATED` is sent
outside the queue and may be overtaken. The list is read when the request is sent, which
is the longest an answer can be under way. `meta.total`, which drifts because events
adjust it without knowing what the server counted, and `previousStatus`, which only serves
it, are left out; so are fields of a card that no filter reads. The list of the landing
page is an entry with other arguments. `AnnouncePayment` happens only when nothing else
is on its way to the tab (a bound).

`market` checks a search, which the index and the page answer differently, with a limit
of one card and a filter, and a longer list without search, over two auctions of two
versions, with one failure. `QuietListRight` names in `lost` exactly what the code does
not repair: an event sent while the socket was down or not sent because the job failed
or the process stopped, an answer that was read before a change and arrives after its
event, and a `CREATED` event that comes after a bid's. "Marketplace pages consume public
`auction:marketplace:update` events to keep list cards aligned" (`docs/ARCHITECTURE.md`)
is therefore true of everything else, until the next fetch.

`FormAccepts` is what the fields and the page let through, `ApiAccepts` what the validator
and the service do; a form that passes the one and not the other is refused
(`RefuseCreation`): blanks for a text, an image URL without a dotted host, an empty file,
a start in the past, more than a week, an amount that is no safe integer, or a file that is
too long. The last is in reach of everybody: the page says "JPEG, PNG, or WEBP up to 2 MB",
but the data URL of a file is a third longer, and the API's limit of 2,500,000 characters
refuses files from 1,874,983 bytes on. `market` contains a form for each of these refusals.
Deadlock is not checked: the bounds end behaviours.

## 10. AuthSession

The tabs of one browser, which share the refresh cookie and keep an access token and a
mutex each, and the session documents.

| Action | Code |
|---|---|
| `Start`, `Finish`, `Refused`, `Refreshed` | `baseQueryWithAuth.ts`, with `auth.api.ts` and `authSlice.ts` |
| `HandleProtected` | `requireAuth` and a route behind it |
| `HandleLogin`, `CheckSession`, `GrantAccess`, `HandleLogout` | `auth.service.ts`: login and register, refresh in two steps, logout |
| `TokensExpire`, `SessionExpires`, `Lose`, `Reload` | time, network, user |

A call is in one stage of `baseQueryWithAuth` and its request in one place. A session
stands for its account, registering for a login. Access tokens of one generation expire
together. `Set-Cookie` and the body arrive in one step, and releasing the mutex resumes
those who wait in the same step, because they run as microtasks. When the query
`restoreSession` runs is RTK Query's doing (external). Suspended accounts and the
identity of sockets are left out.

`auth` checks two tabs, three calls of every kind, one session, one expiry of the tokens
and one failure or reload: enough for two calls to be refused at once with a third in
another tab that logs out. `FairSpec` asks that requests reach the API or fail and that
answers or errors reach the tab; without that no client could promise that calls end
(`EveryCallEnds`), and the browser does give up on a request. Deadlock is not checked:
the bounds end behaviours. `EndedSessionGrantsNothing` leaves out the refresh that was
checked before the session ended: it does get its token, which lives for fifteen minutes by default.

What no property says because it is not so: that two tabs have the same user (a login in
another tab changes the cookie, and the next refresh of this tab takes that account);
that logout is final for the browser (the answer to a refresh under way in another tab
sets the cookie again, though its session is revoked); that a socket keeps its user (one
whose token expired reconnects as a guest).

## 11. Variants

Some guards are preceded by a variant with a plausible mistake (`BidFilterNoVersion`,
`EnqueueAtFront`, `TailsAfterAlwaysDeleting`, `LockedAfterFailure`,
`applyMarketplaceUpdateInFront`, `AcceptsLeadingAmount`, `TellMessageLate`, ...). No
action uses one. Put in the place of the guard, each makes at least one property fail,
as listed in `PROJECT.json` (`mutants`): the properties are sensitive to the code they
are about.

## 12. Proofs

`AuctionEngineProofs` proves, for any finite or infinite sets of processes, users,
requests and calls and any times, increments and bounds allowed by
`EngineAssumption`:

| Theorem | Statement |
|---|---|
| `Invariance` | `Spec => []IInv` |
| `TypeCorrect` | `Spec => []TypeOK` |
| `BidsRise` | `Spec => []LedgerRises` |
| `NoLostBid` | `Spec => []LeaderIsLastBid` |
| `OneVersionPerUpdate` | `Spec => [][auction' # auction => auction'.version = auction.version + 1]_vars` |
| `SequencesUnique` | `Spec => []TimelineSequencesUnique` |
| `SoleInvariance` | `Spec => [](IInv /\ Sole)` |
| `RequestsAcceptedOnce` | `Spec => []RequestAcceptedOnce` |
| `ResultsNameWinningBid` | `Spec => []ResultNamesWinningBid` |
| `RecordsAreComplete` | `Spec => []RecordsComplete` |
| `ClosingRecordsAgree` | `Spec => []ClosingRecordsMatch` |
| `AcknowledgedBidsAreKept` | `Spec => []AcknowledgedBidsCount` |
| `CompletedIsFinal` | `Spec => FrozenOnceCompleted` |
| `EngineImplementsEnglishAuction` | `Spec => ImplementsEnglishAuction` |

The properties are not inductive: they say nothing about jobs half done. `IInv`
adds what a job knows. Its heart is `SeenOK`: the version of a loaded copy never
exceeds the document's, and when they are equal the copy is the document. Every
update raises the version by one, so an update that finds the version it expects
writes over exactly what was loaded and checked; a bid's amount and sequence,
admissible against the copy, are then admissible against the document. `BidJobOK`
ties a job's bid to the ledger and the bid documents, `ClosingJobOK` a closing
job's copy to the completed auction, `DocumentOK` the document to the ledger. The
proof has a lemma per action; actions that change only jobs share lemmas.

Sequence numbers of the timeline are unique because of who may still write one:
`Owed(s)` is the events that the job of `s` took numbers for with its update and has not
recorded yet, `Promised` the timeline and what all jobs owe. `Numbered` says that these
events have numbers up to `lastSequence` and no two of them the same. An update takes new
numbers (`OpenFacts`, `BidFacts`, `CloseFacts`), and the event that is written was
promised.

`Sole` is for one process that nothing has disturbed (`Undisturbed`: one element of
`Server`, no fault). There every number up to `lastSequence` is recorded or owed by the
job under way (`SoleNumbers`); the document has not changed since the job loaded it, and
every bid of the ledger has its document or is the job's (`SoleBid`), so the look-up of a
request identifier cannot miss one that was accepted; and while the auction is completed,
what the closing job has still to write is exactly what is missing (`SoleClosing`). The
three properties of one process follow when no job is under way. Two processes do break
them, as they may in the code: the assumption is in the properties, not in the proof.

`AuctionQueueProofs` proves mutual exclusion, order and the map's entries for any
number of calls and auctions, and as `QueueImplementsSerialOrder` that the chains do what
`SerialQueue!Order`, the abstract queue without its fairness, allows: `Run` submits,
`StartTask` starts the first in line, `Settle` ends the active one, `Cleanup` stutters.
`Chain` says that the calls of an auction which are not over hang on each other in the
order of their tickets, `Tails` that the map's entry is the last of them, `Begun` that
the calls started are those with the first tickets.

`AuctionTimerProofs` proves `AnnouncedOnceInOrder` and `ActiveAuctionArmed`
for any leads, durations and bounds, given that no lead or duration
exceeds the longest timer (`TimerAssumption`: the validator allows seven days, a
timer 24.8). `TInv` says that each auction runs at most one call of each kind, that
an answer waiting for its caller is still true of the auction and not yet announced
(one operation only gets it, by the conditional update), that an end timer is never
cut (`Due` is at or after `endAt`), and that the end of an active auction is on its
way: a timer is set, a `finalize` was asked for, or the answer whose caller sets the
timer is pending.

`PaymentsProofs` proves `SuccessWasPaid`, and for calls that do not overlap
`SuccessIsFinal`, `SuccessNamesItsOrder` and `PaidOnTimelineOnce`, for any calls,
orders, setups and bounds (`PaymentsAssumption`). `PInv` says that what calls and
webhooks carry stays true, for a paid order stays paid (`Evidence`), that no two calls
hold the same new order (`OneJobPerOrder`), and that a call which runs alone writes
over what it loaded (`UpToDate`). Demo checkouts are part of all of this.

`AuctionRoomProofs` proves the four properties of the room, for any tabs, auctions and
bounds. They speak of quiet moments, and `RInv` says why those come out right. While a
tab watches a page over a connection that both ends hold open, `RoomKept`: the last
word under way about its auction is a join, or the socket is in the room and no leave is
under way. `NewsKept`, without failures: that join is still to be taken, or the page
shows the last version broadcast, or a packet with it or the answer to a join that will
read it is under way. `StraysKnown`: a page that never heard of another auction shows its
own or nothing. A broadcast reaches the page because `RoomKept` puts it in the
room; a snapshot read later is not older because no broadcast is ahead of the document
(`Versions`). The lemmas `AppendJoin`, `AppendResync` and `TakeFirst` say what a packet
more or less does to the last word, `OtherTab`, `OwnTab` and `ServerWatching` what a step
leaves alone.

`AuthSessionProofs` proves `RefreshExclusive`, `RunsAtMostOnce`,
`EndedSessionGrantsNothing` and `RefusedOnlyForCause` for any tabs, calls and bounds.
`AInv` says that nothing names a session that was never created (`Known`), so one that
has ended cannot come back, where each request is (`CallOK`), and about a call during
which nothing went wrong (`calm`) that every refresh of its tab is bound to bring a valid
token (`GoodRefresh`, `CalmOK`): so the second sending is accepted.

`MarketplaceProofs` proves `CardsTrue` and `QuietListRight`. `MInv` is the argument why replacing cards blindly works:
events tell what was true (`NewsTrue`), an answer is right about what did not change
since it was read (`AnswerGood`), and the list is right about every auction not lost
or the event that corrects it is still to come (`Tracked`).

`RoomFormsProofs` proves `SuggestionsAreInformed`. `FInv` says that
every minimum on a page or under way is `Dated`: it was the minimum at its version, so
that a bid which came after that version already reaches it and the minimum has moved
on (`Ledger`, prices only rise); and that requests are `Sound`, so that suggestions keep
that date and messages the tab they are from.

It also proves `ChatIsTrue`, from `ChatInv`. A message is in one place at a time: kept, on
its way, with its handler, or told (`OnePlace`), so it is told once and a page has it at
most once. A connection asks for the room before it sends a message that was not kept
for it (`JoinsFirst`), so whoever sends such a message is in the room when it is told.
What a page shows and what is coming to it, one after the other, have the order of
`told` (`InOrder`); an answer is behind its message, or the message is shown or pushed
out by later ones (`AnswersLast`), and `MessageHeard` and `AnswerHeard` say that taking
the first packet keeps both. Steps in which the chat goes no further are `Calm`.

The proofs use no assumption but those on the constants that each module names, and the
library's theorems on finite sets.

Only model-checked: liveness (`EveryWaitingBidRuns`, `LateFinalizationSettles`,
`ActiveAuctionCompletes`, `ArmedAuctionStarts`, `PaidOrderSettles`, `EveryCallEnds`, and the
fairness in `ImplementsSerialQueue`). Liveness under fairness is beyond the provers used.

## 13. Not modelled

Statistics of a room and their count of distinct people; the payment status in snapshots;
the last rejection on the page; the total of a list; users and profiles, which are read and
written one document at a time and share nothing with auctions; suspended accounts;
configuration, health and logging; the seed script and built assets; pages that only show
what the hooks and caches hold, with the list of wins; wording, validation messages,
currencies and names; signatures of gateways; the HTTP and socket transport below what
is said above; React rendering. `PROJECT.json` (`components`) says for each part of the
system how much of it is modelled, and under `hazards` why some have no property.
