---------------------------- MODULE MCRoomForms -----------------------------
(* Two tabs: two bidders, one bidder twice, a bidder and the seller, a       *)
(* bidder and a guest.                                                       *)
EXTENDS RoomForms

CONSTANTS t1, t2, ann, bob, sue

MCVisitors ==
  {[t \in {t1, t2} |-> IF t = t1 THEN ann ELSE u] : u \in {ann, bob, sue, NoUser}}
=============================================================================
