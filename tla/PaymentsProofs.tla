--------------------------- MODULE PaymentsProofs ---------------------------
(***************************************************************************)
(* For any calls, orders and setups: a success recorded for an order of    *)
(* the provider is backed by that order's payment, and while calls do not  *)
(* overlap a success is final.                                             *)
(***************************************************************************)
EXTENDS Payments, TLAPS

USE PaymentsAssumption DEF Mock

LEMMA InitPInv == Init => PInv
<1>1. Idle \in Job
  BY DEF Idle, Job, OrderOrNone
<1>2. ASSUME Init
      PROVE  PInv
  <2>1. TypeOK
    BY <1>1, <1>2 DEF Init, TypeOK, Payment, OrderOrNone, Results
  <2>2. \A c \in Calls : JobOK(c) /\ UpToDate(c) /\ jobs[c] = Idle /\ jobs[c].step = "idle"
    BY <1>2 DEF Init, JobOK, UpToDate, Idle
  <2>3. /\ HooksTrue /\ OrderKnown /\ ~Success
        /\ SuccessWasPaid /\ SuccessNamesItsOrder /\ PaidOnTimelineOnce
    BY <1>2 DEF Init, HooksTrue, OrderKnown, Success, SuccessWasPaid, SuccessNamesItsOrder,
       PaidOnTimelineOnce
  <2>4. QED
    BY <2>1, <2>2, <2>3 DEF PInv, JobsOK, OneJobPerOrder, SerialOK
<1>3. QED
  BY <1>2

\* One call moves on; documents, checkouts and webhooks stay.
LEMMA JobStep ==
  ASSUME PInv, NEW c \in Calls, NEW job \in Job, job.step # "setOrder",
         jobs' = [jobs EXCEPT ![c] = job],
         UNCHANGED <<setup, payment, checkout, hooks>>,
         acked' \subseteq hooks, fails' \in 0..MaxFails, paidEvents' \in 0..2,
         JobOK(c)',
         setup.oneAtATime =>
           /\ UpToDate(c)' /\ PaidOnTimelineOnce'
           /\ \A d \in Calls \ {c} : jobs[d] = Idle
  PROVE  PInv'
<1>1. TypeOK'
  BY DEF PInv, TypeOK
<1>2. jobs'[c] = job /\ \A d \in Calls \ {c} : jobs'[d] = jobs[d]
  BY DEF PInv, TypeOK
<1>3. HooksTrue' /\ OrderKnown' /\ (Success => payment.paymentId \in Orders)' /\ SuccessWasPaid'
  BY DEF PInv, HooksTrue, Evidence, Is, StatusOf, OrderKnown, Success, SuccessWasPaid
<1>4. JobsOK'
  BY <1>2 DEF PInv, JobsOK, JobOK, Evidence, Is
<1>5. OneJobPerOrder'
  BY <1>2 DEF PInv, OneJobPerOrder, Is
<1>6. ASSUME setup.oneAtATime
      PROVE  SerialOK'
  <2>1. \A d \in Calls \ {c} : jobs'[d] = Idle
    BY <1>2, <1>6
  <2>2. \A d, e \in Calls : d # e => jobs'[d] = Idle \/ jobs'[e] = Idle
    BY <2>1
  <2>3. \A d \in Calls : UpToDate(d)'
    BY <2>1, <1>6 DEF UpToDate, Idle
  <2>4. SuccessNamesItsOrder'
    BY <1>6 DEF PInv, SerialOK, SuccessNamesItsOrder, Success
  <2>5. QED
    BY <1>6, <2>2, <2>3, <2>4 DEF SerialOK
<1>7. QED
  BY <1>1, <1>3, <1>4, <1>5, <1>6 DEF PInv

\* A call begins, knowing the document as it is.
LEMMA BeginStep ==
  ASSUME PInv, NEW c \in Calls, NEW job \in Job, job.step # "setOrder", Begin(c, job),
         JobOK(c)', setup.oneAtATime => UpToDate(c)'
  PROVE  PInv'
<1>1. setup.oneAtATime => PaidOnTimelineOnce'
  BY DEF PInv, SerialOK, PaidOnTimelineOnce, Success, Begin
<1>2. setup.oneAtATime => \A d \in Calls \ {c} : jobs[d] = Idle
  BY DEF Begin, Free
<1>3. QED
  BY <1>1, <1>2, JobStep DEF Begin, PInv, TypeOK

\* What is under way when calls do not overlap.
LEMMA OthersIdle ==
  ASSUME PInv, NEW c \in Calls, jobs[c] # Idle, setup.oneAtATime
  PROVE  \A d \in Calls \ {c} : jobs[d] = Idle
  BY DEF PInv, SerialOK

LEMMA CreateCheckoutOrderStep ==
  ASSUME PInv, NEW c \in Calls, CreateCheckoutOrder(c)
  PROVE  PInv'
<1> DEFINE job == [Idle EXCEPT !.step = "createOrder"]
<1>1. job \in Job /\ Begin(c, job) /\ jobs'[c] = job
  BY DEF CreateCheckoutOrder, Begin, PInv, TypeOK, Job, Idle, OrderOrNone
<1>2. JobOK(c)' /\ UpToDate(c)'
  BY <1>1 DEF JobOK, UpToDate, Idle, CreateCheckoutOrder, Payable, Success, Begin
<1>3. QED
  BY <1>1, <1>2, BeginStep DEF Idle

LEMMA CompleteMockCheckoutStep ==
  ASSUME PInv, NEW c \in Calls, CompleteMockCheckout(c)
  PROVE  PInv'
<1>1. PICK outcome \in Results :
        Begin(c, [Idle EXCEPT !.step = "createOrder", !.demo = TRUE, !.status = outcome])
  BY DEF CompleteMockCheckout
<1> DEFINE job == [Idle EXCEPT !.step = "createOrder", !.demo = TRUE, !.status = outcome]
<1>2. job \in Job /\ jobs'[c] = job /\ Begin(c, job)
  BY <1>1 DEF Begin, PInv, TypeOK, Job, Idle, OrderOrNone
<1>3. /\ job.step = "createOrder" /\ job.demo /\ job.status = outcome
      /\ job.seen = NoValue /\ job.hook = NoValue
  BY DEF Idle
<1> HIDE DEF job
<1>4. JobOK(c)' /\ UpToDate(c)'
  BY <1>2, <1>3 DEF JobOK, UpToDate, CompleteMockCheckout, Payable, Success, Begin, Is
<1>5. QED
  BY <1>2, <1>3, <1>4, BeginStep

LEMMA VerifyCheckoutStep ==
  ASSUME PInv, NEW c \in Calls, VerifyCheckout(c)
  PROVE  PInv'
<1>1. PICK o \in Orders : \E s \in Reported(o) :
        Begin(c, [Idle EXCEPT !.step = "verify", !.order = o, !.status = s,
                              !.seen = payment.orderId])
  BY DEF VerifyCheckout
<1>2. PICK outcome \in Reported(o) :
        Begin(c, [Idle EXCEPT !.step = "verify", !.order = o, !.status = outcome,
                              !.seen = payment.orderId])
  BY <1>1
<1> DEFINE job == [Idle EXCEPT !.step = "verify", !.order = o, !.status = outcome,
                               !.seen = payment.orderId]
<1>3. /\ outcome \in Results
      /\ Is("mock") => o = MockOrder
      /\ ~Is("stripe") /\ outcome = "SUCCESSFUL" /\ o # MockOrder => checkout[o] = "paid"
  BY DEF Reported, Is, Results, PInv, TypeOK
<1>4. job \in Job /\ jobs'[c] = job /\ Begin(c, job)
  BY <1>2, <1>3 DEF Begin, PInv, TypeOK, Payment, Job, Idle, OrderOrNone
<1>5. /\ job.step = "verify" /\ ~job.demo /\ job.order = o /\ job.status = outcome
      /\ job.seen = payment.orderId /\ job.hook = NoValue
  BY DEF Idle
<1>6. payment.orderId # NoValue
  <2>1. Is("razorpay") \/ Is("stripe") \/ payment.orderId = MockOrder
    BY <1>2 DEF Reported
  <2>2. Is("razorpay") => checkout[o] = "paid" \/ Hook("payment.failed", o) \in hooks
    BY <1>2 DEF Reported, Is
  <2>3. Is("stripe") => checkout[o] \in {"open", "pending", "paid", "dead"}
    BY <1>2 DEF Reported, Is
  <2>4. QED
    BY <2>1, <2>2, <2>3 DEF PInv, OrderKnown
<1> HIDE DEF job
<1>7. JobOK(c)' /\ UpToDate(c)'
  BY <1>3, <1>4, <1>5, <1>6 DEF JobOK, UpToDate, Evidence, VerifyCheckout, Payable, Success,
     Begin, Is
<1>8. QED
  BY <1>4, <1>5, <1>7, BeginStep

LEMMA HandleWebhookStep ==
  ASSUME PInv, NEW c \in Calls, NEW hook \in hooks, HandleWebhook(c, hook)
  PROVE  PInv'
<1>1. CASE LeftAlone(hook)
  <2>1. /\ UNCHANGED <<setup, payment, checkout, hooks, jobs, fails, paidEvents>>
        /\ acked' = acked \cup {hook}
    BY <1>1 DEF HandleWebhook
  <2>2. TypeOK'
    BY <2>1 DEF PInv, TypeOK
  <2>3. QED
    BY <2>1, <2>2 DEF PInv, HooksTrue, Evidence, Is, StatusOf, OrderKnown, JobsOK, JobOK,
       OneJobPerOrder, Success, SuccessWasPaid, SerialOK, UpToDate, SuccessNamesItsOrder,
       PaidOnTimelineOnce
<1>2. CASE ~LeftAlone(hook)
  <2> DEFINE job == [Idle EXCEPT !.step = "update", !.order = hook.order,
                                 !.status = StatusOf(hook), !.hook = hook]
  <2>1. Begin(c, job) /\ hook.order = payment.orderId /\ ~Success
    BY <1>2 DEF HandleWebhook, LeftAlone, Success
  <2>2. hook \in Hooks /\ hook.order \in Orders /\ StatusOf(hook) \in Results
    BY DEF PInv, TypeOK, Hooks, StatusOf, Results
  <2>3. job \in Job /\ jobs'[c] = job
    BY <2>1, <2>2 DEF Begin, PInv, TypeOK, Job, Idle, OrderOrNone
  <2>4. Evidence(StatusOf(hook), hook.order)'
    BY <2>1 DEF PInv, HooksTrue, Evidence, Is, Begin, StatusOf
  <2>5. /\ job.step = "update" /\ ~job.demo /\ job.order = hook.order
        /\ job.status = StatusOf(hook) /\ job.hook = hook
    BY DEF Idle
  <2> HIDE DEF job
  <2>6. JobOK(c)' /\ UpToDate(c)'
    BY <2>1, <2>2, <2>3, <2>4, <2>5 DEF JobOK, UpToDate, Evidence, Success, Begin, Is
  <2>7. QED
    BY <2>1, <2>3, <2>5, <2>6, BeginStep
<1>3. QED
  BY <1>1, <1>2

LEMMA OrderRefusedStep ==
  ASSUME PInv, NEW c \in Calls, OrderRefused(c)
  PROVE  PInv'
<1>1. Idle \in Job /\ jobs'[c] = Idle /\ jobs[c] # Idle
  BY DEF OrderRefused, PInv, TypeOK, Idle, Job, OrderOrNone
<1>2. JobOK(c)' /\ UpToDate(c)'
  BY <1>1 DEF JobOK, UpToDate, Idle
<1>3. setup.oneAtATime => PaidOnTimelineOnce' /\ \A d \in Calls \ {c} : jobs[d] = Idle
  BY <1>1, OthersIdle DEF PInv, SerialOK, PaidOnTimelineOnce, Success, OrderRefused
<1>4. QED
  BY <1>1, <1>2, <1>3, JobStep DEF OrderRefused, PInv, TypeOK, Idle

LEMMA FailStep ==
  ASSUME PInv, NEW c \in Calls, Fail(c)
  PROVE  PInv'
<1>1. Idle \in Job /\ jobs'[c] = Idle /\ jobs[c] # Idle
  BY DEF Fail, PInv, TypeOK, Idle, Job, OrderOrNone
<1>2. JobOK(c)' /\ UpToDate(c)'
  BY <1>1 DEF JobOK, UpToDate, Idle
<1>3. setup.oneAtATime => PaidOnTimelineOnce' /\ \A d \in Calls \ {c} : jobs[d] = Idle
  BY <1>1, OthersIdle DEF PInv, SerialOK, PaidOnTimelineOnce, Success, Fail
<1>4. fails' \in 0..MaxFails
  BY DEF Fail, PInv, TypeOK
<1>5. QED
  BY <1>1, <1>2, <1>3, <1>4, JobStep DEF Fail, PInv, TypeOK, Idle

LEMMA VerifyPaymentStep ==
  ASSUME PInv, NEW c \in Calls, VerifyPayment(c)
  PROVE  PInv'
<1> DEFINE job == IF Mismatch(c) THEN Idle
                  ELSE [jobs[c] EXCEPT !.step = "update", !.status = Verified(c), !.seen = NoValue]
<1>1. jobs[c] \in Job /\ jobs[c].step = "verify" /\ JobOK(c)
  BY DEF VerifyPayment, PInv, TypeOK, JobsOK
<1>2. /\ jobs[c].order \in Orders /\ Verified(c) \in Results
      /\ Evidence(Verified(c), jobs[c].order)
  BY <1>1 DEF JobOK, Verified, Results, Evidence, Is
<1>3. job \in Job /\ jobs' = [jobs EXCEPT ![c] = job] /\ jobs'[c] = job
  BY <1>1, <1>2 DEF VerifyPayment, PInv, TypeOK, Job, Idle, OrderOrNone
<1>4. UNCHANGED <<setup, payment, checkout, hooks, acked, fails, paidEvents>>
  BY DEF VerifyPayment
<1>5. job.step # "setOrder" /\ (job = Idle \/
        (/\ job.step = "update" /\ job.order = jobs[c].order /\ job.status = Verified(c)
         /\ job.seen = NoValue /\ job.hook = jobs[c].hook /\ ~Mismatch(c)))
  BY <1>1 DEF Job, Idle
<1> HIDE DEF job
<1>6. JobOK(c)'
  <2>1. CASE job = Idle
    BY <1>3, <2>1 DEF JobOK, Idle
  <2>2. CASE job # Idle
    BY <1>1, <1>2, <1>3, <1>4, <1>5, <2>2 DEF JobOK, Evidence, Is
  <2>3. QED
    BY <2>1, <2>2
<1>7. ASSUME setup.oneAtATime
      PROVE  UpToDate(c)' /\ PaidOnTimelineOnce'
  <2>1. UpToDate(c) /\ PaidOnTimelineOnce
    BY <1>7 DEF PInv, SerialOK
  <2>2. CASE job = Idle
    BY <1>3, <1>4, <2>1, <2>2 DEF UpToDate, Idle, PaidOnTimelineOnce, Success
  <2>3. CASE job # Idle
    <3>1. payment.orderId = jobs[c].order
      <4>1. jobs[c].demo => payment.orderId = jobs[c].order
        BY <1>1, <2>1, Zenon DEF UpToDate
      <4>2. ~jobs[c].demo => jobs[c].seen = payment.orderId
        BY <1>1, <2>1 DEF UpToDate
      <4>3. ~jobs[c].demo => jobs[c].seen \in {NoValue, jobs[c].order}
        BY <1>5, <2>3 DEF Mismatch
      <4>4. ~jobs[c].demo => payment.orderId # NoValue
        BY <1>1, <2>1 DEF UpToDate
      <4>5. QED
        BY <4>1, <4>2, <4>3, <4>4
    <3>2. QED
      BY <1>1, <1>3, <1>4, <1>5, <2>1, <2>3, <3>1
         DEF UpToDate, Success, PaidOnTimelineOnce
  <2>4. QED
    BY <2>2, <2>3
<1>8. setup.oneAtATime => \A d \in Calls \ {c} : jobs[d] = Idle
  <2>1. jobs[c] # Idle
    BY <1>1 DEF Idle
  <2>2. QED
    BY <2>1, OthersIdle
<1>9. QED
  BY <1>3, <1>4, <1>5, <1>6, <1>7, <1>8, JobStep DEF PInv, TypeOK

LEMMA RecordStep ==
  ASSUME PInv, NEW c \in Calls, Record(c)
  PROVE  PInv'
<1>1. Idle \in Job /\ jobs'[c] = Idle /\ jobs[c] # Idle /\ jobs[c] \in Job /\ JobOK(c)
  BY DEF Record, PInv, TypeOK, JobsOK, Idle, Job, OrderOrNone
<1>2. acked' \subseteq hooks
  BY <1>1 DEF Record, JobOK, PInv, TypeOK
<1>3. paidEvents' \in 0..2
  BY DEF Record, PInv, TypeOK
<1>4. JobOK(c)' /\ UpToDate(c)'
  BY <1>1 DEF JobOK, UpToDate, Idle
<1>5. ASSUME setup.oneAtATime
      PROVE  PaidOnTimelineOnce' /\ \A d \in Calls \ {c} : jobs[d] = Idle
  <2>1. jobs[c].status = payment.status /\ paidEvents = 0
    BY <1>5 DEF PInv, SerialOK, UpToDate, Record
  <2>2. PaidOnTimelineOnce'
    BY <2>1 DEF Record, PaidOnTimelineOnce, Success
  <2>3. QED
    BY <1>1, <1>5, <2>2, OthersIdle
<1>6. QED
  BY <1>1, <1>2, <1>3, <1>4, <1>5, JobStep DEF Record, PInv, TypeOK, Idle

LEMMA CreateOrderStep ==
  ASSUME PInv, NEW c \in Calls, CreateOrder(c)
  PROVE  PInv'
<1> DEFINE New == {p \in setup.orders : checkout[p] = "none"}
<1>0. MockOrder \in Orders /\ New \subseteq Orders \ {MockOrder}
  BY DEF PInv, TypeOK
<1>1. PICK o \in Orders :
        /\ jobs' = [jobs EXCEPT ![c].step = "setOrder", ![c].order = o]
        /\ checkout' = IF Mock(c) THEN checkout ELSE [checkout EXCEPT ![o] = "created"]
        /\ ~Mock(c) => checkout[o] = "none" /\ o # MockOrder
        /\ Mock(c) => o = MockOrder
  <2>1. PICK o \in IF Mock(c) THEN {MockOrder} ELSE New :
          /\ jobs' = [jobs EXCEPT ![c].step = "setOrder", ![c].order = o]
          /\ checkout' = IF Mock(c) THEN checkout ELSE [checkout EXCEPT ![o] = "created"]
    BY DEF CreateOrder
  <2>2. QED
    BY <1>0, <2>1
<1>2. /\ jobs[c] \in Job /\ JobOK(c) /\ jobs[c].step = "createOrder" /\ jobs[c] # Idle
      /\ UNCHANGED <<setup, payment, hooks, acked, fails, paidEvents>>
  BY DEF CreateOrder, PInv, TypeOK, JobsOK, Idle
<1>3. /\ jobs'[c] \in Job
      /\ jobs'[c].step = "setOrder" /\ jobs'[c].order = o
      /\ jobs'[c].status = jobs[c].status /\ jobs'[c].hook = jobs[c].hook
      /\ jobs'[c].seen = jobs[c].seen /\ jobs'[c].demo = jobs[c].demo
      /\ \A d \in Calls \ {c} : jobs'[d] = jobs[d]
  BY <1>1, <1>2 DEF PInv, TypeOK, Job, OrderOrNone
<1>4. /\ \A p \in Orders : checkout[p] = "paid" <=> checkout'[p] = "paid"
      /\ \A p \in Orders : checkout[p] \in {"none", "created"} => checkout'[p] \in {"none", "created"}
      /\ \A p \in Orders : checkout[p] = "created" => checkout'[p] = "created" /\ (p = o => Mock(c))
      /\ ~Mock(c) => checkout'[o] = "created"
      /\ checkout[MockOrder] = "none" => checkout'[MockOrder] = "none"
  BY <1>1 DEF PInv, TypeOK
<1>5. TypeOK'
  <2>1. jobs' \in [Calls -> Job]
    BY <1>1, <1>3 DEF PInv, TypeOK
  <2>2. checkout' \in [Orders -> {"none", "created", "open", "pending", "paid", "dead"}]
    BY <1>1 DEF PInv, TypeOK
  <2>3. QED
    BY <1>2, <2>1, <2>2 DEF PInv, TypeOK
<1>6. HooksTrue'
  BY <1>2, <1>4 DEF PInv, TypeOK, Hooks, HooksTrue, Evidence, Is, StatusOf
<1>7. OrderKnown'
  BY <1>2, <1>4 DEF PInv, OrderKnown
<1>8. JobsOK'
  <2>1. JobOK(c)'
    BY <1>1, <1>2, <1>3, <1>4 DEF JobOK, Is
  <2>2. ASSUME NEW d \in Calls \ {c}
        PROVE  JobOK(d)'
    BY <1>2, <1>3, <1>4 DEF PInv, JobsOK, JobOK, Evidence, Is
  <2>3. QED
    BY <2>1, <2>2 DEF JobsOK
<1>9. OneJobPerOrder'
  <2>1. ASSUME NEW d \in Calls \ {c}, jobs[d].step = "setOrder", ~Mock(c) \/ ~Mock(d)
        PROVE  jobs[d].order # o
    <3>1. JobOK(d)
      BY DEF PInv, JobsOK
    <3>2. QED
      BY <1>1, <2>1, <3>1 DEF JobOK
  <2>2. QED
    BY <1>2, <1>3, <2>1 DEF PInv, OneJobPerOrder, Is
<1>10. (Success => payment.paymentId \in Orders)' /\ SuccessWasPaid'
  BY <1>2, <1>4 DEF PInv, Success, SuccessWasPaid, Is
<1>11. ASSUME setup.oneAtATime
       PROVE  SerialOK'
  <2>1. \A d \in Calls \ {c} : jobs'[d] = Idle
    BY <1>2, <1>3, <1>11, OthersIdle
  <2>2. \A d \in Calls : UpToDate(d)'
    BY <1>2, <1>3, <1>11, <2>1 DEF PInv, SerialOK, UpToDate, Idle, Success
  <2>3. SuccessNamesItsOrder' /\ PaidOnTimelineOnce'
    BY <1>2, <1>11 DEF PInv, SerialOK, SuccessNamesItsOrder, PaidOnTimelineOnce, Success
  <2>4. \A d, e \in Calls : d # e => jobs'[d] = Idle \/ jobs'[e] = Idle
    BY <2>1
  <2>5. QED
    BY <2>2, <2>3, <2>4 DEF SerialOK
<1>12. QED
  BY <1>2, <1>5, <1>6, <1>7, <1>8, <1>9, <1>10, <1>11 DEF PInv

LEMMA SetGatewayOrderStep ==
  ASSUME PInv, NEW c \in Calls, SetGatewayOrder(c)
  PROVE  PInv'
<1> DEFINE o == jobs[c].order
<1>1. /\ jobs[c] \in Job /\ JobOK(c) /\ jobs[c].step = "setOrder" /\ jobs[c] # Idle
      /\ o \in Orders /\ o # NoValue
      /\ ~Mock(c) => checkout[o] = "created" /\ o # MockOrder
      /\ Mock(c) => o = MockOrder
      /\ jobs[c].demo => jobs[c].status \in Results
      /\ UNCHANGED <<setup, hooks, acked, fails, paidEvents>>
  BY DEF SetGatewayOrder, PInv, TypeOK, JobsOK, JobOK, Idle
<1>2. /\ payment' \in Payment /\ payment'.orderId = o /\ payment'.status = "PENDING"
  BY <1>1 DEF SetGatewayOrder, PInv, TypeOK, Payment, OrderOrNone
<1>3. /\ \A p \in Orders : checkout[p] = "paid" => checkout'[p] = "paid"
      /\ \A p \in Orders : p # o => checkout'[p] = checkout[p]
      /\ checkout' \in [Orders -> {"none", "created", "open", "pending", "paid", "dead"}]
      /\ checkout'[MockOrder] = checkout[MockOrder]
  BY <1>1 DEF SetGatewayOrder, PInv, TypeOK
<1>4. /\ \/ jobs'[c] = Idle
         \/ /\ jobs[c].demo
            /\ jobs'[c] = [jobs[c] EXCEPT !.step = "verify"]
      /\ \A d \in Calls \ {c} : jobs'[d] = jobs[d]
      /\ jobs'[c] \in Job /\ jobs'[c].step \in {"idle", "verify"}
  <2>1. jobs'[c] = IF jobs[c].demo THEN [jobs[c] EXCEPT !.step = "verify"] ELSE Idle
    BY <1>1 DEF SetGatewayOrder, PInv, TypeOK
  <2>2. Idle \in Job /\ Idle.step = "idle"
    BY DEF Idle, Job, OrderOrNone
  <2>3. [jobs[c] EXCEPT !.step = "verify"] \in Job
    BY <1>1 DEF Job
  <2>4. \A d \in Calls \ {c} : jobs'[d] = jobs[d]
    BY DEF SetGatewayOrder, PInv, TypeOK
  <2>5. QED
    BY <1>1, <2>1, <2>2, <2>3, <2>4 DEF Job
<1>5. TypeOK'
  <2>1. jobs' \in [Calls -> Job]
    BY <1>4 DEF SetGatewayOrder, PInv, TypeOK
  <2>2. QED
    BY <1>1, <1>2, <1>3, <2>1 DEF PInv, TypeOK
<1>6. HooksTrue'
  BY <1>1, <1>3 DEF PInv, TypeOK, Hooks, HooksTrue, Evidence, Is, StatusOf
<1>7. OrderKnown'
  BY <1>1, <1>2, <1>3 DEF PInv, OrderKnown
<1>8. JobsOK'
  <2>1. JobOK(c)'
    BY <1>1, <1>4 DEF JobOK, Is, Idle, Evidence, Job
  <2>2. ASSUME NEW d \in Calls \ {c}
        PROVE  JobOK(d)'
    <3>1. JobOK(d)
      BY DEF PInv, JobsOK
    <3>2. jobs[d].step = "setOrder" /\ ~Mock(d) => jobs[d].order # o
      BY <1>1 DEF PInv, OneJobPerOrder
    <3>3. QED
      BY <1>1, <1>3, <1>4, <3>1, <3>2 DEF JobOK, Evidence, Is
  <2>3. QED
    BY <2>1, <2>2 DEF JobsOK
<1>9. OneJobPerOrder'
  <2>1. \A d \in Calls : jobs'[d].step = "setOrder" => d # c /\ jobs'[d] = jobs[d]
    BY <1>4
  <2>2. QED
    BY <1>1, <2>1 DEF PInv, OneJobPerOrder, Is
<1>10. ~Success' /\ SuccessWasPaid'
  BY <1>2 DEF Success, SuccessWasPaid
<1>11. ASSUME setup.oneAtATime
       PROVE  SerialOK'
  <2>1. \A d \in Calls \ {c} : jobs'[d] = Idle
    BY <1>1, <1>4, <1>11, OthersIdle
  <2>2. ~Success /\ paidEvents = 0
    BY <1>1, <1>11 DEF PInv, SerialOK, UpToDate, PaidOnTimelineOnce
  <2>3. UpToDate(c)'
    BY <1>1, <1>2, <1>4, <1>10 DEF UpToDate, Idle, Is, Job
  <2>4. \A d \in Calls : UpToDate(d)'
    BY <2>1, <2>3 DEF UpToDate, Idle
  <2>5. SuccessNamesItsOrder' /\ PaidOnTimelineOnce'
    BY <1>1, <1>10, <2>2 DEF SuccessNamesItsOrder, PaidOnTimelineOnce
  <2>6. \A d, e \in Calls : d # e => jobs'[d] = Idle \/ jobs'[e] = Idle
    BY <2>1
  <2>7. QED
    BY <2>4, <2>5, <2>6 DEF SerialOK
<1>12. QED
  BY <1>1, <1>5, <1>6, <1>7, <1>8, <1>9, <1>10, <1>11 DEF PInv

LEMMA UpdateStatusStep ==
  ASSUME PInv, NEW c \in Calls, UpdateStatus(c)
  PROVE  PInv'
<1>1. /\ jobs[c] \in Job /\ JobOK(c) /\ jobs[c].step = "update" /\ jobs[c] # Idle
      /\ jobs[c].order \in Orders /\ jobs[c].status \in Results
      /\ Evidence(jobs[c].status, jobs[c].order)
      /\ UNCHANGED <<setup, checkout, hooks, acked, fails, paidEvents>>
  BY DEF UpdateStatus, PInv, TypeOK, JobsOK, JobOK, Idle
<1>2. /\ payment' \in Payment /\ payment'.status = jobs[c].status
      /\ payment'.orderId = payment.orderId
      /\ Success' => payment'.paymentId = jobs[c].order /\ payment'.verified
  BY <1>1 DEF UpdateStatus, PInv, TypeOK, Payment, OrderOrNone, Success
<1>3. /\ jobs'[c] = [jobs[c] EXCEPT !.step = "record"]
      /\ \A d \in Calls \ {c} : jobs'[d] = jobs[d]
      /\ jobs'[c] \in Job
  BY <1>1 DEF UpdateStatus, PInv, TypeOK, Job
<1>4. TypeOK'
  <2>1. jobs' \in [Calls -> Job]
    BY <1>3 DEF UpdateStatus, PInv, TypeOK
  <2>2. QED
    BY <1>1, <1>2, <2>1 DEF PInv, TypeOK
<1>5. HooksTrue' /\ OrderKnown'
  BY <1>1, <1>2 DEF PInv, HooksTrue, Evidence, Is, StatusOf, OrderKnown
<1>6. JobsOK'
  <2>1. JobOK(c)'
    BY <1>1, <1>3 DEF JobOK, Evidence, Is, Job
  <2>2. ASSUME NEW d \in Calls \ {c}
        PROVE  JobOK(d)'
    BY <1>1, <1>3 DEF PInv, JobsOK, JobOK, Evidence, Is
  <2>3. QED
    BY <2>1, <2>2 DEF JobsOK
<1>7. OneJobPerOrder'
  <2>1. jobs'[c].step = "record"
    BY <1>1, <1>3 DEF Job
  <2>2. \A d \in Calls : jobs'[d].step = "setOrder" => jobs'[d] = jobs[d]
    BY <1>3, <2>1
  <2>3. QED
    BY <1>1, <2>2 DEF PInv, OneJobPerOrder, Is
<1>8. (Success => payment.paymentId \in Orders)' /\ SuccessWasPaid'
  BY <1>1, <1>2 DEF Success, SuccessWasPaid, Evidence, Is
<1>9. ASSUME setup.oneAtATime
      PROVE  SerialOK'
  <2>1. \A d \in Calls \ {c} : jobs'[d] = Idle
    BY <1>1, <1>3, <1>9, OthersIdle
  <2>2. payment.orderId = jobs[c].order /\ ~Success /\ paidEvents = 0
    BY <1>1, <1>9 DEF PInv, SerialOK, UpToDate, PaidOnTimelineOnce
  <2>3. UpToDate(c)'
    BY <1>1, <1>2, <1>3, <2>2 DEF UpToDate, Job
  <2>4. \A d \in Calls : UpToDate(d)'
    BY <2>1, <2>3 DEF UpToDate, Idle
  <2>5. SuccessNamesItsOrder' /\ PaidOnTimelineOnce'
    BY <1>1, <1>2, <2>2 DEF SuccessNamesItsOrder, PaidOnTimelineOnce, Success
  <2>6. \A d, e \in Calls : d # e => jobs'[d] = Idle \/ jobs'[e] = Idle
    BY <2>1
  <2>7. QED
    BY <2>4, <2>5, <2>6 DEF SerialOK
<1>10. QED
  BY <1>1, <1>4, <1>5, <1>6, <1>7, <1>8, <1>9 DEF PInv

\* The provider moves an order on and sends a webhook that tells the truth of it.
LEMMA ProviderStep ==
  ASSUME PInv, NEW o \in Orders, NEW state \in {"open", "pending", "paid", "dead"},
         NEW hook \in Hooks, Provider(o, state, {hook}), hook.order = o,
         o # MockOrder, checkout[o] \notin {"none", "created"}, checkout[o] = "paid" => state = "paid",
         StatusOf(hook) = "SUCCESSFUL" /\ ~setup.delayed => state = "paid"
  PROVE  PInv'
<1>1. /\ UNCHANGED <<setup, payment, acked, jobs, fails, paidEvents>>
      /\ hooks' = hooks \cup {hook}
      /\ checkout' = [checkout EXCEPT ![o] = state]
  BY DEF Provider
<1>2. /\ \A p \in Orders : checkout[p] = "paid" => checkout'[p] = "paid"
      /\ \A p \in Orders : p # o => checkout'[p] = checkout[p]
      /\ checkout'[o] = state
  BY <1>1 DEF PInv, TypeOK
<1>3. TypeOK'
  <2>1. checkout' \in [Orders -> {"none", "created", "open", "pending", "paid", "dead"}]
    BY <1>1 DEF PInv, TypeOK
  <2>2. QED
    BY <1>1, <2>1 DEF PInv, TypeOK
<1>4. HooksTrue'
  <2>1. Evidence(StatusOf(hook), hook.order)'
    BY <1>1, <1>2 DEF Evidence, Is, StatusOf
  <2>2. ASSUME NEW h \in hooks
        PROVE  Evidence(StatusOf(h), h.order)'
    BY <1>1, <1>2 DEF PInv, TypeOK, Hooks, HooksTrue, Evidence, Is, StatusOf
  <2>3. QED
    BY <1>1, <2>1, <2>2 DEF HooksTrue
<1>5. OrderKnown'
  BY <1>1 DEF PInv, OrderKnown
<1>6. JobsOK'
  <2>1. ASSUME NEW c \in Calls
        PROVE  JobOK(c)'
    <3>1. JobOK(c)
      BY DEF PInv, JobsOK
    <3>2. QED
      BY <1>1, <1>2, <3>1 DEF JobOK, Evidence, Is
  <2>2. QED
    BY <2>1 DEF JobsOK
<1>7. OneJobPerOrder'
  BY <1>1 DEF PInv, OneJobPerOrder, Is
<1>8. (Success => payment.paymentId \in Orders)' /\ SuccessWasPaid'
  BY <1>1, <1>2 DEF PInv, Success, SuccessWasPaid, Is
<1>9. (setup.oneAtATime => SerialOK)'
  BY <1>1 DEF PInv, SerialOK, UpToDate, Is, Success, SuccessNamesItsOrder, PaidOnTimelineOnce
<1>10. QED
  BY <1>3, <1>4, <1>5, <1>6, <1>7, <1>8, <1>9 DEF PInv

LEMMA ProviderSteps ==
  ASSUME PInv, NEW o \in Orders,
         Decline(o) \/ Pay(o) \/ Capture(o) \/ PayLater(o) \/ Settle(o) \/ Expire(o)
  PROVE  PInv'
<1>0. o # MockOrder
  BY DEF Decline, Pay, Capture, PayLater, Settle, Expire, PInv, OrderKnown
<1>1. \A type \in HookTypes : Hook(type, o) \in Hooks /\ Hook(type, o).order = o
                              /\ Hook(type, o).type = type
  BY DEF Hook, Hooks
<1>2. CASE Decline(o)
  <2>1. StatusOf(Hook("payment.failed", o)) = "FAILED"
    BY <1>1 DEF HookTypes, StatusOf
  <2>2. QED
    BY <1>1, <1>2, <2>1, <1>0, ProviderStep DEF Decline, HookTypes
<1>3. CASE Pay(o)
  <2> DEFINE type == IF Is("razorpay") THEN "payment.authorized" ELSE "checkout.session.completed"
  <2>1. type \in HookTypes /\ Provider(o, "paid", {Hook(type, o)}) /\ checkout[o] = "open"
    BY <1>3 DEF Pay, HookTypes
  <2> HIDE DEF type
  <2>2. QED
    BY <1>1, <2>1, <1>0, ProviderStep
<1>4. CASE Capture(o)
  BY <1>1, <1>4, <1>0, ProviderStep DEF Capture, HookTypes
<1>5. CASE PayLater(o)
  BY <1>1, <1>5, <1>0, ProviderStep DEF PayLater, HookTypes
<1>6. CASE Settle(o)
  <2>1. StatusOf(Hook("checkout.session.async_payment_failed", o)) = "FAILED"
    BY <1>1 DEF HookTypes, StatusOf
  <2>2. QED
    BY <1>1, <1>6, <2>1, <1>0, ProviderStep DEF Settle, HookTypes
<1>7. CASE Expire(o)
  <2>1. StatusOf(Hook("checkout.session.expired", o)) = "FAILED"
    BY <1>1 DEF HookTypes, StatusOf
  <2>2. QED
    BY <1>1, <1>7, <2>1, <1>0, ProviderStep DEF Expire, HookTypes
<1>8. QED
  BY <1>2, <1>3, <1>4, <1>5, <1>6, <1>7

LEMMA NextPInv == PInv /\ [Next]_vars => PInv'
<1> SUFFICES ASSUME PInv, [Next]_vars
             PROVE  PInv'
  OBVIOUS
<1>1. ASSUME NEW c \in Calls, CreateCheckoutOrder(c)
      PROVE  PInv'
  BY <1>1, CreateCheckoutOrderStep
<1>2. ASSUME NEW c \in Calls, CompleteMockCheckout(c)
      PROVE  PInv'
  BY <1>2, CompleteMockCheckoutStep
<1>3. ASSUME NEW c \in Calls, VerifyCheckout(c)
      PROVE  PInv'
  BY <1>3, VerifyCheckoutStep
<1>4. ASSUME NEW c \in Calls, NEW hook \in hooks, HandleWebhook(c, hook)
      PROVE  PInv'
  BY <1>4, HandleWebhookStep
<1>5. ASSUME NEW c \in Calls, Step(c)
      PROVE  PInv'
  BY <1>5, CreateOrderStep, OrderRefusedStep, SetGatewayOrderStep, VerifyPaymentStep,
     UpdateStatusStep, RecordStep DEF Step
<1>6. ASSUME NEW c \in Calls, Fail(c)
      PROVE  PInv'
  BY <1>6, FailStep
<1>7. ASSUME NEW o \in Orders,
             Decline(o) \/ Pay(o) \/ Capture(o) \/ PayLater(o) \/ Settle(o) \/ Expire(o)
      PROVE  PInv'
  BY <1>7, ProviderSteps
<1>8. CASE UNCHANGED vars
  BY <1>8 DEF vars, PInv, TypeOK, HooksTrue, Evidence, Is, StatusOf, OrderKnown, JobsOK, JobOK,
     OneJobPerOrder, Success, SuccessWasPaid, SerialOK, UpToDate, SuccessNamesItsOrder,
     PaidOnTimelineOnce
<1>9. QED
  BY <1>1, <1>2, <1>3, <1>4, <1>5, <1>6, <1>7, <1>8 DEF Next

\* What a call or a webhook says of a payment stays true, and a call that does not
\* overlap others knows the document it writes (the four operations of PaymentService,
\* the demo checkout under every gateway among them).
THEOREM PaymentsInvariance == Spec => []PInv
<1>1. QED
  BY InitPInv, NextPInv, PTL DEF Spec

\* A success recorded for an order of the provider names one that was paid, however
\* many checkouts, demo checkouts and webhooks overlap and replace each other's orders
\* (PaymentService.verifyCheckout, handleWebhook; delayed methods are excluded).
THEOREM SuccessIsBacked == Spec => []SuccessWasPaid
<1>1. PInv => SuccessWasPaid
  BY DEF PInv
<1>2. QED
  BY <1>1, PaymentsInvariance, PTL

\* While calls do not overlap, a success is for the stored order
\* (PaymentRepository.setGatewayOrder, updateStatus).
THEOREM SerialSuccessNamesItsOrder == Spec => []SuccessNamesItsOrder
<1>1. PInv => SuccessNamesItsOrder
  BY DEF PInv, SerialOK, SuccessNamesItsOrder
<1>2. QED
  BY <1>1, PaymentsInvariance, PTL

\* While calls do not overlap, a success is announced at most once
\* (PaymentService.markPaymentStatus).
THEOREM SerialSuccessAnnouncedOnce == Spec => []PaidOnTimelineOnce
<1>1. PInv => PaidOnTimelineOnce
  BY DEF PInv, SerialOK, PaidOnTimelineOnce
<1>2. QED
  BY <1>1, PaymentsInvariance, PTL

\* While calls do not overlap, no step changes a successful payment
\* (the checks of loadPayablePayment and handleWebhook).
THEOREM SerialSuccessIsFinal == Spec => SuccessIsFinal
<1> DEFINE Kept == setup.oneAtATime /\ Success => payment' = payment
<1>1. PInv /\ [Next]_vars => Kept
  <2> SUFFICES ASSUME PInv, [Next]_vars, setup.oneAtATime, Success
               PROVE  payment' = payment
    OBVIOUS
  <2>1. \A c \in Calls : jobs[c].step \notin {"setOrder", "update"}
    BY DEF PInv, SerialOK, UpToDate
  <2>2. ASSUME NEW c \in Calls, Step(c)
        PROVE  payment' = payment
    BY <2>1, <2>2 DEF Step, CreateOrder, OrderRefused, SetGatewayOrder, VerifyPayment,
       UpdateStatus, Record
  <2>3. ASSUME NEW c \in Calls, NEW hook \in hooks, HandleWebhook(c, hook)
        PROVE  payment' = payment
    BY <2>3 DEF HandleWebhook, Begin
  <2>4. ASSUME NEW c \in Calls,
               CreateCheckoutOrder(c) \/ CompleteMockCheckout(c) \/ VerifyCheckout(c) \/ Fail(c)
        PROVE  payment' = payment
    BY <2>4 DEF CreateCheckoutOrder, CompleteMockCheckout, VerifyCheckout, Begin, Fail
  <2>5. ASSUME NEW o \in Orders,
               Decline(o) \/ Pay(o) \/ Capture(o) \/ PayLater(o) \/ Settle(o) \/ Expire(o)
        PROVE  payment' = payment
    BY <2>5 DEF Decline, Pay, Capture, PayLater, Settle, Expire, Provider
  <2>6. QED
    BY <2>2, <2>3, <2>4, <2>5 DEF Next, vars
<1>2. QED
  BY <1>1, PaymentsInvariance, PTL DEF Spec, SuccessIsFinal

=============================================================================
