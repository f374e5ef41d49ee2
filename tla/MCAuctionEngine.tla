-------------------------- MODULE MCAuctionEngine ---------------------------
(***************************************************************************)
(* Instances of AuctionEngine for TLC.  The calls are chosen so that every *)
(* answer happens: a first bid, a raise below and above the increment, the *)
(* same request identifier with a higher amount, the owner's bid, and      *)
(* calls refused before the queue.                                         *)
(***************************************************************************)
EXTENDS AuctionEngine, TLC

CONSTANTS ann, bob, sue, r1, r2

MCUser == {ann, bob, sue}
MCRequestId == {r1, r2}

BidBy(u, r, a) == [kind |-> "bid", bidder |-> u, requestId |-> r, amount |-> a]

\* ann opens with 1; bob answers with 2 (too low after ann's) or 3; ann sends
\* her request again with 5.
RaceCalls == {BidBy(ann, r1, 1), BidBy(bob, r1, 2), BidBy(bob, r2, 3), BidBy(ann, r1, 5)}

\* The owner's call and the three that never reach the queue.
RefusedCalls == {BidBy(sue, r1, 5), BidBy(NoUser, r1, 4), BidBy(bob, NoRequest, 4),
                 BidBy(bob, r1, 0)}

AllCalls == RaceCalls \union RefusedCalls
TwoCalls == {BidBy(ann, r1, 1), BidBy(bob, r2, 3)}

\* Processes are interchangeable.
ServerSymmetry == Permutations(Server)
=============================================================================
