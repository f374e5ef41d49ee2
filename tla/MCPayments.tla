----------------------------- MODULE MCPayments -----------------------------
(* Payments for TLC: what each setup may do.                               *)
EXTENDS Payments

\* The orders of a provider, and one of them.
Provided == Orders \ {MockOrder}
OneProvided == {CHOOSE o \in Provided : TRUE}

Serial(gateway, delayed) ==
  [gateway |-> gateway, oneAtATime |-> TRUE, delayed |-> delayed, orders |-> Provided]

Overlapping(gateway, orders) ==
  [gateway |-> gateway, oneAtATime |-> FALSE, delayed |-> FALSE, orders |-> orders]

\* Every gateway one call at a time, delayed methods included.
SerialSetups ==
  {Serial("mock", FALSE), Serial("razorpay", FALSE), Serial("stripe", TRUE)}

\* Overlapping calls, with one order of the provider and the demo order.
OverlappingSetups ==
  {Overlapping("mock", {}), Overlapping("stripe", OneProvided),
   Overlapping("razorpay", OneProvided)}

AllSetups == SerialSetups \union OverlappingSetups

\* Overlapping calls at Razorpay.
RazorpayOverlapping == {Overlapping("razorpay", Provided)}

\* Razorpay, one call at a time.
RazorpaySerial == {Serial("razorpay", FALSE)}
=============================================================================
