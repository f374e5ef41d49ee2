--------------------------- MODULE MCAuctionTimer ---------------------------
(***************************************************************************)
(* Instances of AuctionTimer for TLC.  AnyLead contains a start further    *)
(* away than a timeout can be long; ShortLead does not.                    *)
(***************************************************************************)
EXTENDS AuctionTimer

AnyLead == {0, 1, 3}
ShortLead == {0, 1}
AnyDuration == {1, 2}
=============================================================================
