--------------------------- MODULE EnglishAuction ---------------------------
(***************************************************************************)
(* What one cubid auction promises its users: an English auction that      *)
(* opens no earlier than its start time, moves its price only upwards and  *)
(* by at least the increment, closes once and no earlier than its end      *)
(* time, and names as winner the bidder who led when it closed.  Queues,   *)
(* processes, the database and its failures do not appear here;            *)
(* AuctionEngine implements this specification.                            *)
(***************************************************************************)
EXTENDS Integers

CONSTANTS User, Seller, NoUser,  \* accounts, the auction's owner, "nobody"
          Amount,                \* the amounts users may offer
          StartingBid, MinimumIncrement,
          StartAt, EndAt         \* the window of server time

VARIABLES clock,    \* server time
          status,   \* "UPCOMING", "ACTIVE" or "COMPLETED"
          price,    \* the highest accepted amount, 0 before the first bid
          leader,   \* who offered it, or NoUser
          count,    \* how many bids were accepted
          winner    \* who won, or NoUser

vars == <<clock, status, price, leader, count, winner>>

Minimum == IF count = 0 THEN StartingBid ELSE price + MinimumIncrement

Init ==
  /\ clock \in Nat
  /\ status = IF StartAt <= clock THEN "ACTIVE" ELSE "UPCOMING"
  /\ price = 0 /\ leader = NoUser /\ count = 0 /\ winner = NoUser

Open ==
  /\ status = "UPCOMING" /\ StartAt <= clock
  /\ status' = "ACTIVE"
  /\ UNCHANGED <<clock, price, leader, count, winner>>

Bid(u, a) ==
  /\ status = "ACTIVE" /\ u # Seller /\ a > 0 /\ a >= Minimum
  /\ price' = a /\ leader' = u /\ count' = count + 1
  /\ UNCHANGED <<clock, status, winner>>

Close ==
  /\ status = "ACTIVE" /\ EndAt <= clock
  /\ status' = "COMPLETED" /\ winner' = leader
  /\ UNCHANGED <<clock, price, leader, count>>

Tick == clock' = clock + 1 /\ UNCHANGED <<status, price, leader, count, winner>>

Next == Open \/ Close \/ Tick \/ \E u \in User, a \in Amount : Bid(u, a)

Spec == Init /\ [][Next]_vars
=============================================================================
