--------------------------- MODULE MCAuctionRoom ----------------------------
(* AuctionRoom on small instances: auctions are interchangeable. *)
EXTENDS AuctionRoom, TLC

Symmetric == Permutations(Auction)
=============================================================================
