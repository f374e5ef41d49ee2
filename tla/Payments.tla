------------------------------ MODULE Payments ------------------------------
(***************************************************************************)
(* The payment of one won auction: PaymentService and PaymentRepository    *)
(* (src/api/src/modules/payments) with a gateway adapter                   *)
(* (src/api/src/infrastructure/payments).  Calls from the winner's pages   *)
(* and webhooks from the provider run at once, await by await, on one      *)
(* document that every write changes unconditionally.                      *)
(*                                                                         *)
(* The provider and the page are external: checkouts are paid or declined, *)
(* a paid one is reported by the page and by webhooks, and an unanswered   *)
(* webhook is sent again.  A payment id is represented by the order that   *)
(* was paid.  Loading a payment of somebody else, or none, changes nothing *)
(* and is left out, as are signatures: calls carry what the provider gave. *)
(* The broadcast after a change only reads.                                *)
(*                                                                         *)
(* Some definitions are preceded by variants with a mistake in them, used  *)
(* by no action: the properties must notice them.                          *)
(***************************************************************************)
EXTENDS Naturals, FiniteSets

CONSTANTS
  Calls,      \* slots for calls of the service under way
  Orders,     \* orders the provider may create
  MockOrder,  \* mock_order_<payment id>
  Setups,     \* gateway, whether calls wait for each other, delayed methods, and
              \* as a bound the orders that may be created
  MaxFails,   \* bound on calls that fail half way
  NoValue     \* null

ASSUME PaymentsAssumption ==
  /\ MockOrder \in Orders
  /\ Setups \subseteq [gateway: {"mock", "razorpay", "stripe"}, oneAtATime: BOOLEAN,
                       delayed: BOOLEAN, orders: SUBSET Orders]
  /\ \A s \in Setups : MockOrder \notin s.orders /\ (s.delayed => s.gateway = "stripe")
  /\ MaxFails \in Nat
  /\ NoValue \notin Orders

VARIABLES
  setup,       \* one of Setups
  payment,     \* the payment document
  checkout,    \* each order at the provider
  hooks,       \* webhooks sent so far
  acked,       \* webhooks answered with success
  jobs,        \* calls of the service
  fails,       \* calls that failed so far
  paidEvents   \* PAYMENT_SUCCESSFUL events on the timeline, counted to two

vars == <<setup, payment, checkout, hooks, acked, jobs, fails, paidEvents>>

Results == {"SUCCESSFUL", "FAILED"}
OrderOrNone == Orders \cup {NoValue}

Payment == [status: Results \cup {"PENDING"}, orderId: OrderOrNone,
            paymentId: OrderOrNone, verified: BOOLEAN]

HookTypes ==
  {"payment.authorized", "payment.captured", "payment.failed", "order.paid",
   "checkout.session.completed", "checkout.session.expired",
   "checkout.session.async_payment_succeeded", "checkout.session.async_payment_failed"}

Hooks == [type: HookTypes, order: Orders]
Hook(type, o) == [type |-> type, order |-> o]

\* A call: where it stands, whether it is a demo checkout, the order it is about, the
\* outcome reported to it or verified, the order id in the copy of the document it
\* loaded, its webhook.
Job == [step: {"idle", "createOrder", "setOrder", "verify", "update", "record"},
        demo: BOOLEAN, order: OrderOrNone, status: Results \cup {"PENDING"},
        seen: OrderOrNone, hook: Hooks \cup {NoValue}]

Idle == [step |-> "idle", demo |-> FALSE, order |-> NoValue, status |-> "PENDING",
         seen |-> NoValue, hook |-> NoValue]

TypeOK ==
  /\ setup \in Setups
  /\ payment \in Payment
  /\ checkout \in [Orders -> {"none", "created", "open", "pending", "paid", "dead"}]
  /\ hooks \subseteq Hooks
  /\ acked \subseteq hooks
  /\ jobs \in [Calls -> Job]
  /\ fails \in 0..MaxFails
  /\ paidEvents \in 0..2

Init ==
  /\ setup \in Setups
  /\ payment = [status |-> "PENDING", orderId |-> NoValue, paymentId |-> NoValue,
                verified |-> FALSE]
  /\ checkout = [o \in Orders |-> "none"]
  /\ hooks = {}
  /\ acked = {}
  /\ jobs = [c \in Calls |-> Idle]
  /\ fails = 0
  /\ paidEvents = 0

-----------------------------------------------------------------------------
(* The provider and the winner's page (external).                          *)

Is(gateway) == setup.gateway = gateway

Provider(o, state, sent) ==
  /\ checkout' = [checkout EXCEPT ![o] = state]
  /\ hooks' = hooks \cup sent
  /\ UNCHANGED <<setup, payment, acked, jobs, fails, paidEvents>>

\* An attempt is declined; the same order may be tried again.
Decline(o) ==
  /\ Is("razorpay") /\ checkout[o] = "open"
  /\ Provider(o, "open", {Hook("payment.failed", o)})

\* The winner pays.
Pay(o) ==
  /\ ~Is("mock") /\ checkout[o] = "open"
  /\ Provider(o, "paid", {Hook(IF Is("razorpay") THEN "payment.authorized"
                               ELSE "checkout.session.completed", o)})

\* Razorpay captures an authorized payment.  order.paid, sent with payment.captured, is
\* parsed to the same and is a duplicate of it here.
Capture(o) ==
  /\ Is("razorpay") /\ checkout[o] = "paid"
  /\ Hook("payment.captured", o) \notin hooks
  /\ Provider(o, "paid", {Hook("payment.captured", o)})

\* A session is completed with a method that settles later, and settles.
PayLater(o) ==
  /\ setup.delayed /\ checkout[o] = "open"
  /\ Provider(o, "pending", {Hook("checkout.session.completed", o)})

Settle(o) ==
  /\ checkout[o] = "pending"
  /\ \/ Provider(o, "paid", {Hook("checkout.session.async_payment_succeeded", o)})
     \/ Provider(o, "dead", {Hook("checkout.session.async_payment_failed", o)})

Expire(o) ==
  /\ Is("stripe") /\ checkout[o] = "open"
  /\ Provider(o, "dead", {Hook("checkout.session.expired", o)})

\* What the page may report of an order: Razorpay's handler runs after a payment,
\* its payment.failed listener after a declined attempt; a session is reported by
\* its id alone, and of the mock's order any outcome, by whoever calls the API with
\* the order it was given: no page does.
Reported(o) ==
  CASE Is("razorpay") -> {s \in Results : \/ s = "SUCCESSFUL" /\ checkout[o] = "paid"
                                          \/ s = "FAILED" /\ Hook("payment.failed", o) \in hooks}
    [] Is("stripe") -> {s \in {"SUCCESSFUL"} : checkout[o] \in {"open", "pending", "paid", "dead"}}
    [] OTHER -> {s \in Results : o = MockOrder /\ payment.orderId = MockOrder}

-----------------------------------------------------------------------------
(* Calls of PaymentService.                                                *)

Free(c) ==
  /\ jobs[c] = Idle
  /\ setup.oneAtATime => \A d \in Calls : jobs[d] = Idle

\* loadPayablePayment: a successful payment is refused.
Payable == payment.status # "SUCCESSFUL"

\* A call starts, having loaded the document.
Begin(c, job) ==
  /\ Free(c)
  /\ jobs' = [jobs EXCEPT ![c] = job]
  /\ UNCHANGED <<setup, payment, checkout, hooks, acked, fails, paidEvents>>

CreateCheckoutOrder(c) ==
  /\ Payable
  /\ Begin(c, [Idle EXCEPT !.step = "createOrder"])

\* The demo checkout: whatever the gateway is, the mock creates the order and verifies
\* the outcome it is asked for.
CompleteMockCheckout(c) ==
  /\ Payable
  /\ \E outcome \in Results :
       Begin(c, [Idle EXCEPT !.step = "createOrder", !.demo = TRUE, !.status = outcome])

\* The call asks the mock.
Mock(c) == Is("mock") \/ jobs[c].demo

VerifyCheckout(c) ==
  /\ Payable
  /\ \E o \in Orders : \E outcome \in Reported(o) :
       Begin(c, [Idle EXCEPT !.step = "verify", !.order = o, !.status = outcome,
                             !.seen = payment.orderId])

\* createOrder of the gateway: a new order at the provider, or the mock's only one.
CreateOrder(c) ==
  /\ jobs[c].step = "createOrder"
  /\ \E o \in IF Mock(c) THEN {MockOrder} ELSE {p \in setup.orders : checkout[p] = "none"} :
       /\ jobs' = [jobs EXCEPT ![c].step = "setOrder", ![c].order = o]
       /\ checkout' = IF Mock(c) THEN checkout ELSE [checkout EXCEPT ![o] = "created"]
  /\ UNCHANGED <<setup, payment, hooks, acked, fails, paidEvents>>

\* RAZORPAY_ORDER_FAILED, STRIPE_SESSION_FAILED: the provider creates none.
OrderRefused(c) ==
  /\ jobs[c].step = "createOrder" /\ ~Mock(c)
  /\ jobs' = [jobs EXCEPT ![c] = Idle]
  /\ UNCHANGED <<setup, payment, checkout, hooks, acked, fails, paidEvents>>

\* setGatewayOrder writes the order, with its gateway, and PENDING over whatever is
\* there.  A checkout order goes back to the page, a demo checkout goes on.
SetGatewayOrder(c) ==
  /\ jobs[c].step = "setOrder"
  /\ payment' = [payment EXCEPT !.orderId = jobs[c].order, !.status = "PENDING"]
  /\ checkout' = IF Mock(c) THEN checkout ELSE [checkout EXCEPT ![jobs[c].order] = "open"]
  /\ jobs' = [jobs EXCEPT ![c] = IF @.demo THEN [@ EXCEPT !.step = "verify"] ELSE Idle]
  /\ UNCHANGED <<setup, hooks, acked, fails, paidEvents>>

\* verifyPayment of the gateway: a reported failure is a failure, a session is looked
\* up at the provider, a valid signature is a success, and so is what the mock is told.
VerifiedAsReported(c) == jobs[c].status
Verified(c) ==
  IF /\ jobs[c].status = "SUCCESSFUL" /\ Is("stripe") /\ ~jobs[c].demo
     /\ checkout[jobs[c].order] # "paid"
  THEN "FAILED" ELSE jobs[c].status

\* PAYMENT_ORDER_MISMATCH: the copy that was loaded names another order.
MismatchIgnored(c) == FALSE
Mismatch(c) == jobs[c].seen \notin {NoValue, jobs[c].order}

VerifyPayment(c) ==
  /\ jobs[c].step = "verify"
  /\ jobs' = [jobs EXCEPT ![c] = IF Mismatch(c) THEN Idle
                                 ELSE [@ EXCEPT !.step = "update", !.status = Verified(c),
                                               !.seen = NoValue]]
  /\ UNCHANGED <<setup, payment, checkout, hooks, acked, fails, paidEvents>>

\* parseWebhook of the two providers.
StatusOfAnyEvent(hook) == "SUCCESSFUL"
StatusOf(hook) ==
  IF hook.type \in {"payment.captured", "order.paid", "checkout.session.completed",
                    "checkout.session.async_payment_succeeded"}
  THEN "SUCCESSFUL" ELSE "FAILED"

\* A settled payment, or one with the same status, is left alone.
LeftAloneIfSame(hook) == payment.status = StatusOf(hook)
LeftAloneIfVerified(hook) == payment.status \in Results
LeftAlone(hook) == payment.status \in {"SUCCESSFUL", StatusOf(hook)}

\* The payment is found by the order it names now; a webhook for another order is
\* answered with 404 and stays unanswered.
HandleWebhook(c, hook) ==
  /\ hook.order = payment.orderId
  /\ IF LeftAlone(hook)
     THEN /\ Free(c)
          /\ acked' = acked \cup {hook}
          /\ UNCHANGED <<setup, payment, checkout, hooks, jobs, fails, paidEvents>>
     ELSE Begin(c, [Idle EXCEPT !.step = "update", !.order = hook.order,
                                !.status = StatusOf(hook), !.hook = hook])

\* markPaymentStatus: updateStatus, also unconditional ...
UpdateStatus(c) ==
  /\ jobs[c].step = "update"
  /\ LET paid == jobs[c].status = "SUCCESSFUL"
     IN  payment' = [payment EXCEPT !.status = jobs[c].status,
                       !.paymentId = IF Mock(c) /\ ~paid THEN NoValue ELSE jobs[c].order,
                       !.verified = paid]
  /\ jobs' = [jobs EXCEPT ![c].step = "record"]
  /\ UNCHANGED <<setup, checkout, hooks, acked, fails, paidEvents>>

\* ... then the timeline event, after which the call is answered.
Record(c) ==
  /\ jobs[c].step = "record"
  /\ paidEvents' = IF jobs[c].status = "SUCCESSFUL" /\ paidEvents < 2
                   THEN paidEvents + 1 ELSE paidEvents
  /\ acked' = acked \cup ({jobs[c].hook} \ {NoValue})
  /\ jobs' = [jobs EXCEPT ![c] = Idle]
  /\ UNCHANGED <<setup, payment, checkout, hooks, fails>>

\* The database or the provider fails a call, or the process ends under it.
Fail(c) ==
  /\ jobs[c] # Idle /\ fails < MaxFails
  /\ jobs' = [jobs EXCEPT ![c] = Idle]
  /\ fails' = fails + 1
  /\ UNCHANGED <<setup, payment, checkout, hooks, acked, paidEvents>>

Step(c) ==
  \/ CreateOrder(c)
  \/ OrderRefused(c)
  \/ SetGatewayOrder(c)
  \/ VerifyPayment(c)
  \/ UpdateStatus(c)
  \/ Record(c)

Next ==
  \/ \E c \in Calls :
       \/ CreateCheckoutOrder(c)
       \/ CompleteMockCheckout(c)
       \/ VerifyCheckout(c)
       \/ \E hook \in hooks : HandleWebhook(c, hook)
       \/ Step(c)
       \/ Fail(c)
  \/ \E o \in Orders :
       Decline(o) \/ Pay(o) \/ Capture(o) \/ PayLater(o) \/ Settle(o) \/ Expire(o)

Spec == Init /\ [][Next]_vars

\* A webhook that reports the payment of o and has no answer yet reaches the service.
ReportPaid(o) ==
  \E c \in Calls : \E hook \in hooks \ acked :
    hook.order = o /\ StatusOf(hook) = "SUCCESSFUL" /\ HandleWebhook(c, hook)

\* Calls go on, the provider captures what was authorized, and sends a webhook
\* again until it is answered.
Fairness ==
  /\ \A c \in Calls : WF_vars(Step(c))
  /\ \A o \in Orders : WF_vars(Capture(o)) /\ SF_vars(ReportPaid(o))

FairSpec == Spec /\ Fairness
-----------------------------------------------------------------------------
(* Properties.                                                             *)

Success == payment.status = "SUCCESSFUL"

\* However checkouts, demo checkouts and webhooks overlap and replace each other's
\* orders, a success recorded for an order of the provider is one the provider has the
\* money for.  A demo checkout's success names the mock's order, and with delayed
\* methods a completed session is taken for a paid one: neither is claimed here.
SuccessWasPaid ==
  Success /\ payment.paymentId # MockOrder /\ ~setup.delayed =>
    checkout[payment.paymentId] = "paid"

\* "Never trust client time, bid amount calculations, winner IDs, payment state, or
\* permission flags" (src/docs/SECURITY.md:14) of a payment: with a real provider it is
\* recorded as successful only if the provider has money for it.  The demo checkout
\* is there with every gateway and records the outcome its caller names.
SuccessMeansMoney ==
  Success /\ ~Is("mock") /\ ~setup.delayed => \E o \in Orders : checkout[o] = "paid"

\* While calls do not overlap, nothing changes a successful payment.
SuccessIsFinal ==
  [][setup.oneAtATime /\ Success => payment' = payment]_vars

\* While calls do not overlap, a successful payment names one order: the one
\* stored for verification is the one that was paid, and the time is recorded.
SuccessNamesItsOrder ==
  setup.oneAtATime /\ Success => payment.paymentId = payment.orderId /\ payment.verified

\* While calls do not overlap, the timeline says at most once that the payment was
\* successful, and then it is.
PaidOnTimelineOnce ==
  setup.oneAtATime => paidEvents = 0 \/ (paidEvents = 1 /\ Success)

\* While calls do not overlap, a payment whose order is paid becomes successful,
\* whatever fails, unless another checkout is started first.
PaidOrderSettles ==
  \A o \in Orders :
    (setup.oneAtATime /\ checkout[o] = "paid" /\ payment.orderId = o)
      ~> (Success \/ payment.orderId # o)

\* The inductive invariant behind these.  What a call or a webhook says of a payment
\* is true from then on, for a paid order stays paid; and a call that does not overlap
\* others still knows, when it writes, the document it loaded.
Evidence(status, o) ==
  status = "SUCCESSFUL" /\ o # MockOrder /\ ~setup.delayed => checkout[o] = "paid"

JobOK(c) ==
  LET job == jobs[c]
  IN  /\ job.step = "idle" => job = Idle
      /\ job.demo => job.seen = NoValue /\ job.status \in Results
      /\ job.step \in {"createOrder", "setOrder"} => job.seen = NoValue
      /\ job.step = "setOrder" =>
           /\ job.order \in Orders
           /\ Mock(c) <=> job.order = MockOrder
           /\ ~Mock(c) => checkout[job.order] = "created"
      /\ job.step = "verify" =>
           /\ job.order \in Orders /\ job.status \in Results
           /\ Mock(c) => job.order = MockOrder
           /\ ~Is("stripe") => Evidence(job.status, job.order)
      /\ job.step \in {"update", "record"} =>
           /\ job.order \in Orders /\ job.status \in Results
           /\ Evidence(job.status, job.order)
      /\ job.hook # NoValue => job.hook \in hooks

OneJobPerOrder ==
  \A c, d \in Calls :
    /\ c # d /\ ~Mock(c)
    /\ jobs[c].step = "setOrder" /\ jobs[d].step = "setOrder"
    => jobs[c].order # jobs[d].order

UpToDate(c) ==
  LET job == jobs[c]
  IN  /\ job.step = "verify" =>
           /\ payment.orderId = IF job.demo THEN job.order ELSE job.seen
           /\ payment.orderId # NoValue
      /\ job.step \in {"update", "record"} => payment.orderId = job.order
      /\ job.step \notin {"idle", "record"} => ~Success
      /\ job.step = "record" => job.status = payment.status /\ paidEvents = 0

SerialOK ==
  /\ \A c, d \in Calls : c # d => jobs[c] = Idle \/ jobs[d] = Idle
  /\ \A c \in Calls : UpToDate(c)
  /\ SuccessNamesItsOrder
  /\ PaidOnTimelineOnce

HooksTrue == \A hook \in hooks : Evidence(StatusOf(hook), hook.order)

OrderKnown ==
  /\ checkout[MockOrder] = "none"
  /\ payment.orderId = NoValue =>
       hooks = {} /\ \A o \in Orders : checkout[o] \in {"none", "created"}

JobsOK == \A c \in Calls : JobOK(c)

PInv ==
  /\ TypeOK
  /\ HooksTrue
  /\ OrderKnown
  /\ JobsOK
  /\ OneJobPerOrder
  /\ Success => payment.paymentId \in Orders
  /\ SuccessWasPaid
  /\ setup.oneAtATime => SerialOK

\* The test "keeps successful webhook updates idempotent and never downgrades paid
\* records" (src/api/tests/services/payment.service.test.ts:301) of any calls: it
\* fails when calls overlap.
NeverDowngraded ==
  [][Success /\ payment.paymentId # MockOrder => payment'.status # "FAILED"]_vars
=============================================================================
