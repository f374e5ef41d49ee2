--------------------------- MODULE MCAuctionQueue ---------------------------
(***************************************************************************)
(* Three calls for one auction and one for another.                        *)
(***************************************************************************)
EXTENDS AuctionQueue

CONSTANTS t1, t2, t3, t4, a1, a2

MCAuctionOf == [t \in Task |-> IF t = t4 THEN a2 ELSE a1]
=============================================================================
